---- MODULE Spec2Model ----
(***************************************************************************)
(* Model of the code-exploration pipeline: the LangGraph state machine     *)
(* (graph/machine.ts, graph/nodes.ts), the prune engine (prune/apply.ts,   *)
(* prune/planner.ts), the tree slicers (ast/parse.ts), the token estimator *)
(* (ast/meta.ts) and the code-slice loader (code/load.ts, code/ranges.ts,  *)
(* code/answer.ts).                                                        *)
(*                                                                         *)
(* Strings of the program are sequences of one-character strings, so that  *)
(* length, substring search, lower-casing, splitting and joining are       *)
(* computed, not assumed.  An optional value (undefined | v) is the empty  *)
(* sequence or the one-element sequence <<v>>.                             *)
(***************************************************************************)
EXTENDS Integers, Sequences, FiniteSets, TLC

VARIABLES
    pc,      \* the graph node that runs next, or "END" / "failed" / "cutoff" / "call" / "returned"
    state,   \* the GraphState record threaded through the nodes
    env,     \* the configuration read from the environment (config/env.ts)
    llm,     \* TRUE iff an oracle client is configured (nodes.ts: llm !== null)
    log,     \* history: the graph nodes executed so far, in order
    call     \* pure-function harness: the function applied, its arguments and its result

vars == <<pc, state, env, llm, log, call>>

----------------------------------------------------------------------------
(* Bounds of the model *)

MaxTrees == 3       \* longest tree list drawn as input of the prune functions
MaxBudget == 4      \* largest token budget drawn for trimToTokenBudget
MaxK == 2           \* largest k drawn for rankAndTrim
MaxLine == 4        \* largest in-range line number drawn for readFileLines
MaxRanges == 3      \* longest range list drawn for nodeLoadCodeSlices
MaxNodesHint == 2   \* largest maxNodes drawn for sliceDetailedAST
MaxTopK == 3        \* largest explicit k drawn for topKTypes
MaxParSteps == 10   \* nodes one of two concurrent runs executes: one loop-back
MaxRebuilds == 2     \* rebuilds of the index file
MaxSteps == 19      \* nodes a run executes before the model stops it: three iterations

----------------------------------------------------------------------------
(* Arithmetic and string helpers (JavaScript built-ins) *)

Min(a, b) == IF a <= b THEN a ELSE b
Max(a, b) == IF a >= b THEN a ELSE b

\* Math.ceil(a / b) for an integer a >= 0 and b > 0
CeilDiv(a, b) == (a + b - 1) \div b

\* String.prototype.includes
Includes(s, sub) ==
    \E i \in 0..(Len(s) - Len(sub)) : SubSeq(s, i + 1, i + Len(sub)) = sub

\* String.prototype.endsWith
EndsWith(s, suf) ==
    Len(suf) <= Len(s) /\ SubSeq(s, Len(s) - Len(suf) + 1, Len(s)) = suf

\* String.prototype.toLowerCase on the letters the model uses
LowerChar(c) ==
    CASE c = "A" -> "a"
      [] c = "F" -> "f"
      [] c = "I" -> "i"
      [] c = "L" -> "l"
      [] c = "E" -> "e"
      [] OTHER -> c

ToLower(s) == [i \in 1..Len(s) |-> LowerChar(s[i])]

\* Array.prototype.join(sep) on a list of strings
RECURSIVE Join(_, _)
Join(strs, sep) ==
    IF strs = <<>> THEN <<>>
    ELSE IF Len(strs) = 1 THEN strs[1]
    ELSE strs[1] \o sep \o Join(Tail(strs), sep)

\* String.prototype.split(c) for a one-character separator c
RECURSIVE SplitFrom(_, _, _)
SplitFrom(s, c, cur) ==
    IF s = <<>> THEN <<cur>>
    ELSE IF Head(s) = c THEN <<cur>> \o SplitFrom(Tail(s), c, <<>>)
    ELSE SplitFrom(Tail(s), c, Append(cur, Head(s)))

Split(s, c) == SplitFrom(s, c, <<>>)

\* Array.prototype.flat() on a list of lists
RECURSIVE Flat(_)
Flat(lists) == IF lists = <<>> THEN <<>> ELSE Head(lists) \o Flat(Tail(lists))

Elems(seq) == {seq[i] : i \in 1..Len(seq)}

\* arr[idx] = v on a JavaScript array (0-based idx); a gap is filled with empty
\* entries, which flat() passes over just as it passes over holes
RECURSIVE SetAt(_, _, _)
SetAt(arr, idx, v) ==
    IF idx < Len(arr) THEN [arr EXCEPT ![idx + 1] = v]
    ELSE IF idx = Len(arr) THEN Append(arr, v)
    ELSE SetAt(Append(arr, <<>>), idx, v)

\* all sequences over S of length at most n
RECURSIVE SeqsUpTo(_, _)
SeqsUpTo(S, n) ==
    IF n = 0 THEN {<<>>}
    ELSE LET shorter == SeqsUpTo(S, n - 1)
         IN shorter \cup {Append(q, x) : q \in shorter, x \in S}

\* ... and those of them without repetition
DistinctSeqs(S, n) == {q \in SeqsUpTo(S, n) : Cardinality(Elems(q)) = Len(q)}

----------------------------------------------------------------------------
(* Syntax trees (core/types.ts) and the token estimator (ast/meta.ts).     *)
(* A node is [type, sample, children]; the row/column spans of AstNodeLite *)
(* are read by no function of the pipeline and are left out.               *)

Node(t, s, chs) == [type |-> t, sample |-> s, children |-> chs]

\* summarizeAst: [total sample characters, total nodes] of a subtree
RECURSIVE summarizeAst(_)
RECURSIVE summarizeChildren(_)
summarizeAst(node) ==
    LET r == summarizeChildren(node.children)
    IN <<Len(node.sample) + r[1], 1 + r[2]>>

summarizeChildren(chs) ==
    IF chs = <<>> THEN <<0, 0>>
    ELSE LET h == summarizeAst(Head(chs))
             t == summarizeChildren(Tail(chs))
         IN <<h[1] + t[1], h[2] + t[2]>>

\* the chars/nodes accumulation loop of estimateTokensForAsts
RECURSIVE sumAsts(_)
sumAsts(asts) ==
    IF asts = <<>> THEN <<0, 0>>
    ELSE LET h == summarizeAst(Head(asts).root)
             t == sumAsts(Tail(asts))
         IN <<h[1] + t[1], h[2] + t[2]>>

\* mutant: the node term rounded down instead of up
estimateTokensForAsts_floorNodes(asts) ==
    LET cn == sumAsts(asts) IN CeilDiv(cn[1], 4) + (cn[2] \div 10)

estimateTokensForAsts(asts) ==
    LET cn == sumAsts(asts) IN CeilDiv(cn[1], 4) + CeilDiv(cn[2], 10)

\* countNodesQuick: the explicit-stack walk that stops after cap visits
RECURSIVE countNodesLoop(_, _, _)
countNodesLoop(stack, count, cap) ==
    IF stack = <<>> \/ count >= cap THEN count
    ELSE LET n == stack[Len(stack)]
         IN countNodesLoop(SubSeq(stack, 1, Len(stack) - 1) \o n.children, count + 1, cap)

countNodesQuick(root, cap) == countNodesLoop(<<root>>, 0, cap)

\* the default k of topKTypes
DefaultTopK == 5

\* the normalize option of topKTypes: absent (the identity), one that merges the
\* declaration types into one, one that maps the identifiers to ""
normalizeType(normalize, t) ==
    IF normalize = "mergeDeclarations" /\ t = "function_declaration" THEN "declaration"
    ELSE IF normalize = "eraseIdentifiers" /\ t = "identifier" THEN ""
    ELSE t

\* mutant: a type seen again has its count set to 1
freqSet_overwrites(freq, t0) ==
    IF \E i \in 1..Len(freq) : freq[i].type = t0
    THEN [i \in 1..Len(freq) |->
            IF freq[i].type = t0 THEN [type |-> t0, count |-> 1] ELSE freq[i]]
    ELSE Append(freq, [type |-> t0, count |-> 1])

\* freq.set(t0, (freq.get(t0) || 0) + 1) on a Map, which keeps insertion order
freqSet(freq, t0) ==
    IF \E i \in 1..Len(freq) : freq[i].type = t0
    THEN [i \in 1..Len(freq) |->
            IF freq[i].type = t0 THEN [type |-> t0, count |-> freq[i].count + 1]
            ELSE freq[i]]
    ELSE Append(freq, [type |-> t0, count |-> 1])

\* the walk of topKTypes: explicit stack, every node visited
RECURSIVE topKLoop(_, _, _, _)
topKLoop(stack, freq, stop, normalize) ==
    IF stack = <<>> THEN freq
    ELSE LET n  == stack[Len(stack)]
             t0 == normalizeType(normalize, n.type)
         IN topKLoop(SubSeq(stack, 1, Len(stack) - 1) \o n.children,
                     IF t0 # "" /\ t0 \notin stop THEN freqSet(freq, t0) ELSE freq,
                     stop, normalize)

\* sort((a, b) => b.count - a.count): stable, by descending count
RECURSIVE insertByCount(_, _)
insertByCount(sorted, x) ==
    IF sorted = <<>> THEN <<x>>
    ELSE IF Head(sorted).count >= x.count
         THEN <<Head(sorted)>> \o insertByCount(Tail(sorted), x)
         ELSE <<x>> \o sorted

RECURSIVE sortByCount(_, _)
sortByCount(done, rest) ==
    IF rest = <<>> THEN done ELSE sortByCount(insertByCount(done, Head(rest)), Tail(rest))

\* Array.prototype.slice(0, k): a negative k counts from the end
SliceTo(arr, k) ==
    IF k >= 0 THEN SubSeq(arr, 1, Min(k, Len(arr))) ELSE SubSeq(arr, 1, Len(arr) + k)

\* topKTypes(root, k = 5, opts): k is <<>> when not given
topKTypes(root, k, opts) ==
    LET arr == SliceTo(sortByCount(<<>>, topKLoop(<<root>>, <<>>, opts.stopTypes,
                                                   opts.normalize)),
                       IF k = <<>> THEN DefaultTopK ELSE k[1])
    IN IF opts.withCounts THEN arr ELSE [i \in 1..Len(arr) |-> arr[i].type]

----------------------------------------------------------------------------
(* Server caps of the prune engine (prune/apply.ts) *)

\* mutant: the path is compared as it is written, not lower-cased
score_pathAsIs(a, query) ==
    (IF query # <<>> /\ Includes(a.filePath, query) THEN 3 ELSE 0)
    + Min(3, Len(a.root.children))

\* the score closure of rankAndTrim
score(a, query) ==
    (IF query # <<>> /\ Includes(ToLower(a.filePath), query) THEN 3 ELSE 0)
    + Min(3, Len(a.root.children))

\* Array.prototype.sort((x, y) => y.s - x.s): stable, by descending score
RECURSIVE insertByScore(_, _, _)
insertByScore(sorted, a, query) ==
    IF sorted = <<>> THEN <<a>>
    ELSE IF score(Head(sorted), query) >= score(a, query)
         THEN <<Head(sorted)>> \o insertByScore(Tail(sorted), a, query)
         ELSE <<a>> \o sorted

RECURSIVE sortByScore(_, _, _)
sortByScore(done, rest, query) ==
    IF rest = <<>> THEN done
    ELSE sortByScore(insertByScore(done, Head(rest), query), Tail(rest), query)

\* mutant: the early return also taken for a list one longer than k
rankAndTrim_offByOne(asts, question, k) ==
    IF k <= 0 \/ Len(asts) <= k + 1 THEN asts
    ELSE SubSeq(sortByScore(<<>>, asts, ToLower(question)), 1, Min(k, Len(asts)))

rankAndTrim(asts, question, k) ==
    IF k <= 0 \/ Len(asts) <= k THEN asts
    ELSE SubSeq(sortByScore(<<>>, asts, ToLower(question)), 1, Min(k, Len(asts)))

\* the for-loop of trimToTokenBudget: accept whole files until one overflows
RECURSIVE trimLoop(_, _, _)
trimLoop(asts, budget, used) ==
    IF asts = <<>> THEN <<>>
    ELSE LET t == estimateTokensForAsts(<<Head(asts)>>)
         IN IF used + t > budget THEN <<>>
            ELSE <<Head(asts)>> \o trimLoop(Tail(asts), budget, used + t)

\* mutant: the overflowing file is skipped and the loop goes on (continue for break)
RECURSIVE trimLoop_continue(_, _, _)
trimLoop_continue(asts, budget, used) ==
    IF asts = <<>> THEN <<>>
    ELSE LET t == estimateTokensForAsts(<<Head(asts)>>)
         IN IF used + t > budget THEN trimLoop_continue(Tail(asts), budget, used)
            ELSE <<Head(asts)>> \o trimLoop_continue(Tail(asts), budget, used + t)

trimToTokenBudget_continue(asts, budget) ==
    IF budget <= 0 THEN asts ELSE trimLoop_continue(asts, budget, 0)

trimToTokenBudget(asts, budget) ==
    IF budget <= 0 THEN asts ELSE trimLoop(asts, budget, 0)

----------------------------------------------------------------------------
(* Tree slicers (ast/parse.ts) *)

DefaultMaxNodes == 200

\* the synthetic root both slicers return
SyntheticRoot(chs) == Node("root", <<>>, chs)

\* the match test of sliceDetailedAST's dfs
matchesHints(node, symbols, hintTypes) ==
    \/ (hintTypes # <<>> /\ node.type \in Elems(hintTypes))
    \/ (symbols # <<>> /\ \E i \in 1..Len(symbols) :
            node.sample # <<>> /\ Includes(node.sample, symbols[i]))

\* dfs of sliceDetailedAST: pre-order, no node entered once maxNodes are collected
RECURSIVE dfs(_, _, _, _, _)
RECURSIVE dfsChildren(_, _, _, _, _)
dfs(node, results, symbols, hintTypes, maxNodes) ==
    IF Len(results) >= maxNodes THEN results
    ELSE dfsChildren(node.children,
                     IF matchesHints(node, symbols, hintTypes)
                         THEN Append(results, node) ELSE results,
                     symbols, hintTypes, maxNodes)

dfsChildren(chs, results, symbols, hintTypes, maxNodes) ==
    IF chs = <<>> THEN results
    ELSE dfsChildren(Tail(chs),
                     dfs(Head(chs), results, symbols, hintTypes, maxNodes),
                     symbols, hintTypes, maxNodes)

\* mutant: the maxNodes of the hints is not read
sliceDetailedAST_ignoresMaxNodes(fullAst, hints) ==
    [fullAst EXCEPT !.root =
        SyntheticRoot(dfs(fullAst.root, <<>>, hints.symbols, hints.hintTypes, DefaultMaxNodes))]

\* sliceDetailedAST(fullAst, {symbols = [], hintTypes = [], maxNodes = 200});
\* a key the hints record does not name by one of these three names is not read
sliceDetailedAST(fullAst, hints) ==
    LET maxNodes == IF hints.maxNodes = <<>> THEN DefaultMaxNodes ELSE hints.maxNodes[1]
    IN [fullAst EXCEPT !.root =
            SyntheticRoot(dfs(fullAst.root, <<>>, hints.symbols, hints.hintTypes, maxNodes))]

IsDigit(c) == c \in {"0", "1", "2", "9"}

DigitVal(c) ==
    CASE c = "0" -> 0
      [] c = "1" -> 1
      [] c = "2" -> 2
      [] c = "9" -> 9

RECURSIVE DigitsValue(_, _)
DigitsValue(s, acc) ==
    IF s = <<>> THEN acc ELSE DigitsValue(Tail(s), 10 * acc + DigitVal(Head(s)))

AllDigits(s) == s # <<>> /\ \A i \in 1..Len(s) : IsDigit(s[i])

\* Number(seg) followed by Number.isInteger, for a segment written with digits,
\* "-" and letters: <<n>> for an integer, <<>> for NaN
NumberOfSegment(seg) ==
    IF AllDigits(seg) THEN <<DigitsValue(seg, 0)>>
    ELSE IF seg # <<>> /\ Head(seg) = "-" /\ AllDigits(Tail(seg))
         THEN <<0 - DigitsValue(Tail(seg), 0)>>
    ELSE <<>>

\* getNodeByPath: <<node>> when every index is in range, <<>> for null
RECURSIVE getNodeByPath(_, _)
getNodeByPath(node, indices) ==
    IF indices = <<>> THEN <<node>>
    ELSE LET idx == Head(indices)
         IN IF idx < 0 \/ idx >= Len(node.children) THEN <<>>
            ELSE getNodeByPath(node.children[idx + 1], Tail(indices))

\* mutant: the segments that are not integers are left out of the path instead
\* of the path being passed over
pickPath_keepsNumericSegments(root, p) ==
    LET parts == SelectSeq(Split(p, "."), LAMBDA seg : seg # <<>>)
        nums  == [i \in 1..Len(parts) |-> NumberOfSegment(parts[i])]
    IN getNodeByPath(root, Flat(nums))

\* one iteration of sliceByPaths' loop over the paths: the node picked, if any
pickPath(root, p) ==
    LET parts == SelectSeq(Split(p, "."), LAMBDA seg : seg # <<>>)
        nums  == [i \in 1..Len(parts) |-> NumberOfSegment(parts[i])]
        idxs  == Flat(nums)
    IN IF Len(idxs) # Len(parts) THEN <<>> ELSE getNodeByPath(root, idxs)

RECURSIVE pickPaths(_, _)
pickPaths(root, paths) ==
    IF paths = <<>> THEN <<>>
    ELSE pickPath(root, Head(paths)) \o pickPaths(root, Tail(paths))

sliceByPaths(ast, paths) ==
    [ast EXCEPT !.root = SyntheticRoot(pickPaths(ast.root, paths))]

isNonEmptySlice(ast) == Len(ast.root.children) > 0

----------------------------------------------------------------------------
(* Context budget and plan application (prune/apply.ts) *)

\* JSON.stringify({files: [...]}).length for file names that need no escaping:
\* {"files":[ and ]} are 12 characters, each name is quoted, commas in between
JsonFilesLength(files) ==
    LET lens == Flat([i \in 1..Len(files) |-> [j \in 1..(Len(files[i]) + 2) |-> 1]])
    IN 12 + Len(lens) + (IF Len(files) > 0 THEN Len(files) - 1 ELSE 0)

\* filteredAst?.files when it is an array, else []
filesOf(filteredAst) == IF filteredAst = <<>> THEN <<>> ELSE filteredAst[1].files

estimateFixedPromptTokens(question, filteredAst, pruned, droppedAll) ==
    1200 + CeilDiv(Len(question), 4)
         + CeilDiv(JsonFilesLength(SubSeq(filesOf(filteredAst), 1,
                                          Min(200, Len(filesOf(filteredAst))))), 4)
         + (IF pruned THEN 50 ELSE 0)
         + (IF droppedAll THEN 30 ELSE 0)

\* calcAstBudget; env.PROMPT_SAFETY is kept in tenths, so that
\* Math.floor(usable * PROMPT_SAFETY) is (usable * tenths) \div 10
calcAstBudget(question, filteredAst, pruned, droppedAll) ==
    IF env.MODEL_CTX_TOKENS <= 0 THEN 0
    ELSE LET fixed  == estimateFixedPromptTokens(question, filteredAst, pruned, droppedAll)
             usable == env.MODEL_CTX_TOKENS - env.OUTPUT_TOKENS_BUDGET - fixed
             safe   == (usable * env.PROMPT_SAFETY_TENTHS) \div 10
         IN Max(0, safe)

pushPruneTrace(tr, item) == [tr EXCEPT !.prune = Append(@, item)]

filePaths(asts) == [i \in 1..Len(asts) |-> asts[i].filePath]

\* Array.from(new Set(list)): first occurrences, in order
RECURSIVE Dedup(_, _)
Dedup(list, seen) ==
    IF list = <<>> THEN <<>>
    ELSE IF Head(list) \in seen THEN Dedup(Tail(list), seen)
    ELSE <<Head(list)>> \o Dedup(Tail(list), seen \cup {Head(list)})

\* sliceRules.get(file): the Map keeps the last rule set for a file
ruleFor(plan, file) ==
    LET hits == {i \in 1..Len(plan.slice) : plan.slice[i].file = file}
    IN IF hits = {} THEN <<>>
       ELSE <<plan.slice[CHOOSE i \in hits : \A j \in hits : j <= i]>>

\* the slice branch of the per-file loop: by first, then paths
applyRule(ast, rule) ==
    LET s1 == IF rule.by # <<>> THEN sliceDetailedAST(ast, rule.by[1]) ELSE ast
    IN IF rule.paths # <<>> THEN sliceByPaths(s1, rule.paths) ELSE s1

\* mutant: keep_full consulted before drop
resolveFile_keepFirst(ast, plan) ==
    LET file == ast.filePath
        rule == ruleFor(plan, file)
    IN IF file \in Elems(plan.keep_full) THEN <<ast>>
       ELSE IF file \in Elems(plan.drop) THEN <<>>
       ELSE IF rule # <<>>
            THEN (IF isNonEmptySlice(applyRule(ast, rule[1]))
                  THEN <<applyRule(ast, rule[1])>> ELSE <<>>)
       ELSE <<>>

\* one pass of the per-file loop: <<tree kept>>, or <<>> when the file is dropped
resolveFile(ast, plan) ==
    LET file == ast.filePath
        rule == ruleFor(plan, file)
    IN IF file \in Elems(plan.drop) THEN <<>>
       ELSE IF file \in Elems(plan.keep_full) THEN <<ast>>
       ELSE IF rule # <<>>
            THEN (IF isNonEmptySlice(applyRule(ast, rule[1]))
                  THEN <<applyRule(ast, rule[1])>> ELSE <<>>)
       ELSE <<>>

keptOf(asts, plan) == Flat([i \in 1..Len(asts) |-> resolveFile(asts[i], plan)])

droppedNamesOf(asts, plan) ==
    Flat([i \in 1..Len(asts) |->
            IF resolveFile(asts[i], plan) = <<>> THEN <<asts[i].filePath>> ELSE <<>>])

\* step 3 of applyPrunePlan: file-count cap, then token budget
enforceLimits(kept, question, filteredAst) ==
    LET dynamicBudget == calcAstBudget(question, filteredAst, TRUE, FALSE)
        byCount == IF env.PROMPT_MAX_FILES > 0 /\ Len(kept) > env.PROMPT_MAX_FILES
                   THEN rankAndTrim(kept, question, env.PROMPT_MAX_FILES)
                   ELSE kept
    IN IF ~env.PRUNE_SERVER_ENFORCE_LIMITS THEN kept
       ELSE IF dynamicBudget > 0 THEN trimToTokenBudget(byCount, dynamicBudget)
       ELSE IF env.MAX_AST_TOKENS > 0 THEN trimToTokenBudget(byCount, env.MAX_AST_TOKENS)
       ELSE byCount

\* the plan applyPrunePlan records for DROP_ALL: {mode: 'DROP_ALL'}
DropAllApplied == [mode |-> "DROP_ALL", keep_full |-> <<>>, slice |-> <<>>, drop |-> <<>>]

\* mutant: the permission flag read inverted
dropAllApplies_flagInverted(plan) == ~env.PRUNE_ALLOW_DROP_ALL /\ plan.mode = "DROP_ALL"

\* the test that guards the DROP_ALL branch
dropAllApplies(plan) == env.PRUNE_ALLOW_DROP_ALL /\ plan.mode = "DROP_ALL"

applyPrunePlan(st, plan) ==
    LET asts == st.detailedAsts
        pruned == enforceLimits(keptOf(asts, plan), st.question, st.filteredAst)
    IN IF dropAllApplies(plan)
       THEN [st EXCEPT
                !.prunedAsts = <<>>,
                !.prunePlan = <<plan>>,
                !.prunePlanApplied = <<DropAllApplied>>,
                !.droppedAll = TRUE,
                !.followups = [array |-> TRUE, items |-> <<>>],
                !._trace = pushPruneTrace(@, [
                    mode |-> "DROP_ALL",
                    plannedFiles |-> filePaths(asts),
                    keptFiles |-> <<>>,
                    droppedFiles |-> filePaths(asts),
                    estTokensBefore |-> estimateTokensForAsts(asts),
                    estTokensAfter |-> 0])]
       ELSE [st EXCEPT
                !.prunedAsts = pruned,
                !.prunePlan = <<plan>>,
                !.prunePlanApplied =
                    <<[plan EXCEPT !.drop = Dedup(droppedNamesOf(asts, plan) \o plan.drop, {})]>>,
                !.droppedAll = (Len(pruned) = 0),
                !._trace = pushPruneTrace(@, [
                    mode |-> IF plan.mode = "undefined" THEN "KEEP_SOME" ELSE plan.mode,
                    plannedFiles |-> filePaths(asts),
                    keptFiles |-> filePaths(pruned),
                    droppedFiles |-> SelectSeq(filePaths(asts),
                                        LAMBDA f : f \notin Elems(filePaths(pruned))),
                    estTokensBefore |-> estimateTokensForAsts(asts),
                    estTokensAfter |-> estimateTokensForAsts(pruned)])]

----------------------------------------------------------------------------
(* The project on disk and the inputs the model draws *)

FileTs    == <<"f", ".", "t", "s">>
FileJs    == <<"b", ".", "j", "s">>
FileMd    == <<"c", ".", "m", "d">>                 \* no language mapping
FileDotTs == <<".", "/", "f", ".", "t", "s">>       \* FileTs, not normalised

\* filtered_ast.json as buildFilteredAst writes it: the files list, sorted
IndexFiles == <<FileJs, FileTs>>

QuestionPool == {<<>>, <<"f">>}

TreeEmpty == Node("program", <<>>, <<>>)
TreeLeaf  == Node("program", <<"x">>, <<>>)
TreeTwo   ==
    Node("program", <<"f", "g">>,
         << Node("function_declaration", <<"f">>, <<Node("identifier", <<"f">>, <<>>)>>),
            Node("function_declaration", <<"g">>, <<>>) >>)

TreePool == {TreeEmpty, TreeLeaf, TreeTwo}

\* path.extname: from the last "." of the base name, "" when there is none
ExtName(p) ==
    LET dots == {i \in 1..Len(p) : p[i] = "."}
        last == CHOOSE i \in dots : \A j \in dots : j <= i
    IN IF dots = {} THEN <<>>
       ELSE IF last = 1 \/ p[last - 1] = "/" THEN <<>>
       ELSE SubSeq(p, last, Len(p))

\* getLanguageByExt (ast/languages.ts) on the extensions of the model's files:
\* <<language>> or <<>> for null
getLanguageByExt(ext) ==
    CASE ext = <<".", "t", "s">> -> <<"typescript">>
      [] ext = <<".", "j", "s">> -> <<"javascript">>
      [] ext = <<".", "p", "y">> -> <<"python">>
      [] ext = <<".", "c">>      -> <<"c">>
      [] OTHER                   -> <<>>

\* path.relative(PROJECT_ROOT, path.resolve(PROJECT_ROOT, rel)) for a path
\* below the root: leading "./" segments disappear
RECURSIVE NormalizePath(_)
NormalizePath(p) ==
    IF Len(p) >= 2 /\ p[1] = "." /\ p[2] = "/"
    THEN NormalizePath(SubSeq(p, 3, Len(p)))
    ELSE p

\* what tree-sitter makes of each file of the project
FileTree(p) ==
    CASE p = FileTs -> TreeTwo
      [] p = FileJs -> TreeLeaf
      [] OTHER      -> TreeEmpty

\* the text of each file of the project
FileText(p) ==
    CASE p = FileTs -> <<"a", "\n", "b", "\n", "c">>
      [] p = FileJs -> <<"x">>
      [] OTHER      -> <<"m">>

FilesOnDisk == {FileTs, FileJs, FileMd}

\* a DetailedAst
DetailedAst(file, lang, root) == [filePath |-> file, language |-> lang, root |-> root]

\* SliceHints; "types" is the key the plan prompt names (config/prompts.ts)
Hints(symbols, hintTypes, types, maxNodes) ==
    [symbols |-> symbols, hintTypes |-> hintTypes, types |-> types, maxNodes |-> maxNodes]

Rule(file, by, paths) == [file |-> file, by |-> by, paths |-> paths]

Plan(mode, keepFull, slice, drop) ==
    [mode |-> mode, keep_full |-> keepFull, slice |-> slice, drop |-> drop]

\* config/env.ts with no variable set
DefaultEnv ==
    [ MAX_LOOPS |-> 1,
      PRUNE_ALLOW_DROP_ALL |-> TRUE,
      PRUNE_SERVER_ENFORCE_LIMITS |-> TRUE,
      PROMPT_MAX_FILES |-> 0,
      MAX_AST_TOKENS |-> 0,
      MODEL_CTX_TOKENS |-> 0,
      OUTPUT_TOKENS_BUDGET |-> 1500,
      PROMPT_SAFETY_TENTHS |-> 8,
      CODE_MAX_FILES |-> 6,
      CODE_MAX_BYTES |-> 200000,
      MAX_CODE_TOKENS |-> 0 ]

\* initialState (graph/nodes.ts); fields the code leaves undefined hold the
\* value every reader of them substitutes (?? [], !!x)
initialState(question) ==
    [ question |-> question,
      filteredAst |-> <<>>,
      wantFiles |-> <<>>,
      sliceHints |-> <<>>,
      detailedAsts |-> <<>>,
      modeUsed |-> "slice",
      answer |-> "",
      followups |-> [array |-> TRUE, items |-> <<>>],
      _loopCount |-> 0,
      prunedAsts |-> <<>>,
      prunePlan |-> <<>>,
      prunePlanApplied |-> <<>>,
      droppedAll |-> FALSE,
      codeRanges |-> <<>>,
      codeSlices |-> <<>>,
      _trace |-> [iterations |-> 0, filesRequested |-> <<>>, filesParsed |-> <<>>,
                  prune |-> <<>>] ]

----------------------------------------------------------------------------
(* Graph nodes (graph/nodes.ts, prune/planner.ts, code/ranges.ts,          *)
(* code/load.ts, code/answer.ts).  An oracle response is a record whose    *)
(* kind is "json" (content parses), "malformed" (JSON.parse throws) or     *)
(* "throw" (the invoke call itself rejects).                               *)

HasJsExt(f) ==
    \/ EndsWith(f, <<".", "t", "s">>)
    \/ EndsWith(f, <<".", "t", "s", "x">>)
    \/ EndsWith(f, <<".", "j", "s", "x">>)
    \/ EndsWith(f, <<".", "j", "s">>)

\* the deterministic file choice: the first three JS/TS files of the index
fallbackFiles(st) ==
    LET files == SelectSeq(filesOf(st.filteredAst), HasJsExt)
    IN SubSeq(files, 1, Min(3, Len(files)))

questionSymbols(st) == IF st.question # <<>> THEN <<st.question>> ELSE <<>>

\* the tail shared by both branches of nodeDecideFiles
recordRequested(st, wantFiles, sliceHints) ==
    [st EXCEPT !.wantFiles = wantFiles,
               !.sliceHints = sliceHints,
               !._trace.filesRequested = SetAt(@, st._trace.iterations, wantFiles)]

nodeDecideFiles(st, resp) ==
    IF ~llm
    THEN recordRequested(st, fallbackFiles(st),
            <<Hints(questionSymbols(st),
                    <<"function_declaration", "method_definition">>, <<>>, <<200>>)>>)
    ELSE IF resp.kind = "json"
    THEN recordRequested(st, resp.wantFiles, resp.sliceHints)
    ELSE recordRequested(st, fallbackFiles(st),
            <<Hints(questionSymbols(st), <<"function_declaration">>, <<>>, <<200>>)>>)

parsedAllOf(st) == Elems(Flat(st._trace.filesParsed))

\* the decide_files_again node (graph/machine.ts)
decideFilesAgain(st, resp) ==
    LET next == nodeDecideFiles(st, resp)
        filtered == SelectSeq(next.wantFiles, LAMBDA f : f \notin parsedAllOf(next))
    IN [next EXCEPT !._loopCount = st._loopCount + 1,
                    !._trace.iterations = @ + 1,
                    !.wantFiles = filtered,
                    !.followups = IF filtered = <<>>
                                  THEN [array |-> TRUE, items |-> <<>>] ELSE @]

\* parseFileToAST: <<tree>>, or <<>> when it throws (no file, no language
\* mapping, or a read error, which ok = FALSE stands for)
parseFileToAST(rel, ok) ==
    LET p == NormalizePath(rel)
        lang == getLanguageByExt(ToLower(ExtName(p)))
    IN IF ok /\ p \in FilesOnDisk /\ lang # <<>>
       THEN <<DetailedAst(p, lang[1], FileTree(p))>>
       ELSE <<>>

\* nodeGetDetailedAsts; oks[i] tells whether reading wantFiles[i] succeeds
nodeGetDetailedAsts(st, oks) ==
    LET files == st.wantFiles
        results == Flat([i \in 1..Len(files) |-> parseFileToAST(files[i], oks[i])])
    IN [st EXCEPT !.detailedAsts = results,
                  !._trace.filesParsed = SetAt(@, st._trace.iterations, filePaths(results))]

\* demoPrunePlan (prune/planner.ts)
demoPrunePlan(st) ==
    Plan("KEEP_SOME", <<>>,
         IF st.sliceHints # <<>>
         THEN [i \in 1..Len(st.detailedAsts) |->
                 Rule(st.detailedAsts[i].filePath,
                      <<[st.sliceHints[1] EXCEPT !.maxNodes =
                            <<Min(200, IF @ = <<>> THEN 200 ELSE @[1])>>]>>,
                      <<>>)]
         ELSE <<>>,
         <<>>)

\* collectPrunePlan for a response that does not reject
collectPrunePlan(st, resp) ==
    IF ~llm THEN demoPrunePlan(st)
    ELSE IF resp.kind = "json" THEN resp.plan
    ELSE demoPrunePlan(st)

\* mutant: the stage reports droppedAll when there was nothing to prune
nodePruneAst_emptyDropsAll(st, resp) ==
    IF st.detailedAsts = <<>>
    THEN [st EXCEPT !.prunedAsts = <<>>, !.droppedAll = TRUE]
    ELSE applyPrunePlan(st, collectPrunePlan(st, resp))

nodePruneAst(st, resp) ==
    IF st.detailedAsts = <<>>
    THEN [st EXCEPT !.prunedAsts = <<>>, !.droppedAll = FALSE]
    ELSE applyPrunePlan(st, collectPrunePlan(st, resp))

\* a JavaScript integer hi * 2^32 + lo, lo within the signed 32-bit range
JsInt(hi, lo) == [hi |-> hi, lo |-> lo]

\* n | 0: the low 32 bits of n, read as a signed integer
ToInt32(n) == n.lo

\* a CodeRange whose line numbers are within the 32-bit range
Range(file, startLine, endLine) ==
    [file |-> file, startLine |-> JsInt(0, startLine), endLine |-> JsInt(0, endLine)]

sourceForPlan(st) == IF st.prunedAsts # <<>> THEN st.prunedAsts ELSE st.detailedAsts

\* nodeSelectCodeRanges (code/ranges.ts) for a response that does not reject
nodeSelectCodeRanges(st, resp) ==
    LET src == sourceForPlan(st)
        n == IF env.CODE_MAX_FILES > 0 THEN Min(env.CODE_MAX_FILES, Len(src)) ELSE Len(src)
    IN IF src = <<>> THEN [st EXCEPT !.codeRanges = <<>>]
       ELSE IF ~llm
       THEN [st EXCEPT !.codeRanges = [i \in 1..n |-> Range(src[i].filePath, 1, 200)]]
       ELSE IF resp.kind = "json" THEN [st EXCEPT !.codeRanges = resp.ranges]
       ELSE [st EXCEPT !.codeRanges = <<>>]

\* readFileLines (code/load.ts): <<text>>, or <<>> for null
readFileLines(rel, lineStart, lineEnd) ==
    LET p == NormalizePath(rel)
        lines == Split(FileText(p), "\n")
        s == Max(1, ToInt32(lineStart))
        e == Max(s, ToInt32(lineEnd))
    IN IF p \notin FilesOnDisk THEN <<>>
       ELSE <<Join(SubSeq(lines, s, Min(e, Len(lines))), <<"\n">>)>>

\* mutant: a range that overflows the byte cap is skipped and the loop goes on
RECURSIVE loadLoop_skipsOverflow(_, _)
loadLoop_skipsOverflow(ranges, totalBytes) ==
    IF ranges = <<>> THEN <<>>
    ELSE LET r == Head(ranges)
             code == readFileLines(r.file, r.startLine, r.endLine)
         IN IF code = <<>> THEN loadLoop_skipsOverflow(Tail(ranges), totalBytes)
            ELSE IF env.CODE_MAX_BYTES > 0 /\ totalBytes + Len(code[1]) > env.CODE_MAX_BYTES
                 THEN loadLoop_skipsOverflow(Tail(ranges), totalBytes)
            ELSE <<[file |-> r.file, startLine |-> r.startLine, endLine |-> r.endLine,
                    code |-> code[1]]>>
                 \o loadLoop_skipsOverflow(Tail(ranges), totalBytes + Len(code[1]))

\* the first loop of nodeLoadCodeSlices: byte cap, break at the first overflow
RECURSIVE loadLoop(_, _)
loadLoop(ranges, totalBytes) ==
    IF ranges = <<>> THEN <<>>
    ELSE LET r == Head(ranges)
             code == readFileLines(r.file, r.startLine, r.endLine)
         IN IF code = <<>> THEN loadLoop(Tail(ranges), totalBytes)
            ELSE IF env.CODE_MAX_BYTES > 0 /\ totalBytes + Len(code[1]) > env.CODE_MAX_BYTES
                 THEN <<>>
            ELSE <<[file |-> r.file, startLine |-> r.startLine, endLine |-> r.endLine,
                    code |-> code[1]]>>
                 \o loadLoop(Tail(ranges), totalBytes + Len(code[1]))

\* the second loop: approximate token cap
RECURSIVE tokenCutLoop(_, _)
tokenCutLoop(slices, used) ==
    IF slices = <<>> THEN <<>>
    ELSE LET t == CeilDiv(Len(Head(slices).code), 4)
         IN IF used + t > env.MAX_CODE_TOKENS THEN <<>>
            ELSE <<Head(slices)>> \o tokenCutLoop(Tail(slices), used + t)

nodeLoadCodeSlices(st) ==
    LET ranges == st.codeRanges
        picked == IF env.CODE_MAX_FILES > 0
                  THEN SubSeq(ranges, 1, Min(env.CODE_MAX_FILES, Len(ranges)))
                  ELSE ranges
        slices == loadLoop(picked, 0)
    IN IF ranges = <<>> THEN [st EXCEPT !.codeSlices = <<>>]
       ELSE IF env.MAX_CODE_TOKENS > 0
       THEN [st EXCEPT !.codeSlices = tokenCutLoop(slices, 0)]
       ELSE [st EXCEPT !.codeSlices = slices]

\* nodeAnswerFromCode (code/answer.ts) for a response that does not reject
nodeAnswerFromCode(st, resp) ==
    IF ~llm
    THEN [st EXCEPT !.answer = "demo", !.followups = [array |-> TRUE, items |-> <<>>]]
    ELSE IF resp.kind = "json"
    THEN [st EXCEPT !.answer = resp.answer, !.followups = resp.followups]
    ELSE [st EXCEPT !.answer = "raw content",
                    !.followups = [array |-> TRUE, items |-> <<>>]]

\* /<U+D30C><U+C77C>|file|module|<U+B354>|expand|detail/i, the Hangul syllables
\* written by their code points, one character each
ExpansionKeywords ==
    { <<"U+D30C", "U+C77C">>, <<"f", "i", "l", "e">>, <<"m", "o", "d", "u", "l", "e">>, <<"U+B354">>,
      <<"e", "x", "p", "a", "n", "d">>, <<"d", "e", "t", "a", "i", "l">> }

wantsMore(text) == \E kw \in ExpansionKeywords : Includes(ToLower(text), kw)

\* mutant: the droppedAll test left out
shouldLoop_ignoresDroppedAll(st) ==
    LET arr == IF st.followups.array THEN st.followups.items ELSE <<>>
    IN IF arr = <<>> THEN FALSE
       ELSE IF ~wantsMore(Join(arr, <<" ">>)) THEN FALSE
       ELSE \E i \in 1..Len(st.wantFiles) : st.wantFiles[i] \notin parsedAllOf(st)

\* mutant: the test for a file not yet parsed left out
shouldLoop_ignoresHasNew(st) ==
    LET arr == IF st.followups.array THEN st.followups.items ELSE <<>>
    IN IF st.droppedAll THEN FALSE
       ELSE IF arr = <<>> THEN FALSE
       ELSE wantsMore(Join(arr, <<" ">>))

\* shouldLoop (graph/nodes.ts)
shouldLoop(st) ==
    LET arr == IF st.followups.array THEN st.followups.items ELSE <<>>
    IN IF st.droppedAll THEN FALSE
       ELSE IF arr = <<>> THEN FALSE
       ELSE IF ~wantsMore(Join(arr, <<" ">>)) THEN FALSE
       ELSE \E i \in 1..Len(st.wantFiles) : st.wantFiles[i] \notin parsedAllOf(st)

----------------------------------------------------------------------------
(* Oracle responses the model draws *)

NoFollowups == [array |-> TRUE, items |-> <<>>]

FunctionHints == Hints(<<>>, <<"function_declaration">>, <<>>, <<1>>)
TypesOnlyHints == Hints(<<>>, <<>>, <<"function_declaration">>, <<>>)

DecideResponse(kind, wantFiles, sliceHints) ==
    [kind |-> kind, wantFiles |-> wantFiles, sliceHints |-> sliceHints]

DecideResponses ==
    { DecideResponse("json", <<FileTs>>, <<FunctionHints>>),
      DecideResponse("json", <<FileJs, FileMd>>, <<>>),
      DecideResponse("json", <<FileDotTs>>, <<>>),
      DecideResponse("json", <<>>, <<>>),
      DecideResponse("malformed", <<>>, <<>>),
      DecideResponse("throw", <<>>, <<>>) }

PlanResponse(kind, plan) == [kind |-> kind, plan |-> plan]

EmptyPlan == Plan("undefined", <<>>, <<>>, <<>>)

PlanResponses ==
    { PlanResponse("json", Plan("DROP_ALL", <<FileTs>>, <<>>, <<>>)),
      PlanResponse("json", Plan("KEEP_SOME", <<FileTs, FileJs>>, <<>>, <<>>)),
      PlanResponse("json", Plan("KEEP_MIN", <<>>,
                                <<Rule(FileTs, <<TypesOnlyHints>>, <<>>)>>, <<FileJs>>)),
      PlanResponse("malformed", EmptyPlan),
      PlanResponse("throw", EmptyPlan) }

RangeResponse(kind, ranges) == [kind |-> kind, ranges |-> ranges]

RangeResponses ==
    { RangeResponse("json", <<Range(FileTs, 2, 9), Range(FileDotTs, 0, 1)>>),
      RangeResponse("json", <<>>),
      RangeResponse("malformed", <<>>),
      RangeResponse("throw", <<>>) }

AnswerResponse(kind, answer, followups) ==
    [kind |-> kind, answer |-> answer, followups |-> followups]

FollowupPool ==
    { NoFollowups,
      [array |-> TRUE, items |-> << <<"F", "i", "l", "e">> >>],
      [array |-> TRUE, items |-> << <<"f", "i">>, <<"l", "e">> >>],
      [array |-> FALSE, items |-> << <<"f", "i", "l", "e">> >>] }

AnswerResponses ==
    {AnswerResponse("json", "oracle answer", f) : f \in FollowupPool}
    \cup { AnswerResponse("malformed", "", NoFollowups),
           AnswerResponse("throw", "", NoFollowups) }

\* the responses a node can see: none is asked for without an oracle
Asked(responses) == IF llm THEN responses ELSE {CHOOSE r \in responses : r.kind = "malformed"}

----------------------------------------------------------------------------
(* The graph (graph/machine.ts) *)

\* mutant: the edge out of get_details bypasses prune_ast
NextNode_skipsPrune(node) ==
    CASE node = "load_filtered"      -> "decide_files"
      [] node = "decide_files"       -> "get_details"
      [] node = "get_details"        -> "select_code_ranges"
      [] node = "prune_ast"          -> "select_code_ranges"
      [] node = "select_code_ranges" -> "load_code_slices"
      [] node = "load_code_slices"   -> "answer_from_code"
      [] node = "decide_files_again" -> "get_details"

\* addEdge(from, to)
NextNode(node) ==
    CASE node = "load_filtered"      -> "decide_files"
      [] node = "decide_files"       -> "get_details"
      [] node = "get_details"        -> "prune_ast"
      [] node = "prune_ast"          -> "select_code_ranges"
      [] node = "select_code_ranges" -> "load_code_slices"
      [] node = "load_code_slices"   -> "answer_from_code"
      [] node = "decide_files_again" -> "get_details"

\* addConditionalEdges('answer_from_code', ...)
afterAnswer(st) == IF shouldLoop(st) THEN "decide_files_again" ELSE "END"

Runs(node) == pc = node /\ Len(log) < MaxSteps

Goes(node, st) ==
    /\ state' = st
    /\ pc' = NextNode(node)
    /\ log' = Append(log, node)
    /\ UNCHANGED <<env, llm, call>>

\* the node throws: invoke() rejects with the error and the run ends
Throws(node) ==
    /\ pc' = "failed"
    /\ log' = Append(log, node)
    /\ UNCHANGED <<state, env, llm, call>>

\* nodeLoadFilteredAst: the index file holds an index, holds null, or is missing
LoadFiltered ==
    /\ Runs("load_filtered")
    /\ \E disk \in {"index", "null", "missing"} :
          IF disk = "missing" THEN Throws("load_filtered")
          ELSE Goes("load_filtered",
                    [state EXCEPT !.filteredAst =
                        IF disk = "index" THEN <<[files |-> IndexFiles]>> ELSE <<>>])

DecideFiles ==
    /\ Runs("decide_files")
    /\ \E resp \in Asked(DecideResponses) :
          IF state.filteredAst = <<>> \/ (llm /\ resp.kind = "throw")
          THEN Throws("decide_files")
          ELSE Goes("decide_files", nodeDecideFiles(state, resp))

GetDetails ==
    /\ Runs("get_details")
    /\ \E oks \in [1..Len(state.wantFiles) -> BOOLEAN] :
          Goes("get_details", nodeGetDetailedAsts(state, oks))

PruneAst ==
    /\ Runs("prune_ast")
    /\ \E resp \in Asked(PlanResponses) :
          IF state.detailedAsts # <<>> /\ llm /\ resp.kind = "throw"
          THEN Throws("prune_ast")
          ELSE Goes("prune_ast", nodePruneAst(state, resp))

SelectCodeRanges ==
    /\ Runs("select_code_ranges")
    /\ \E resp \in Asked(RangeResponses) :
          IF sourceForPlan(state) # <<>> /\ llm /\ resp.kind = "throw"
          THEN Throws("select_code_ranges")
          ELSE Goes("select_code_ranges", nodeSelectCodeRanges(state, resp))

LoadCodeSlices ==
    /\ Runs("load_code_slices")
    /\ Goes("load_code_slices", nodeLoadCodeSlices(state))

AnswerFromCode ==
    /\ Runs("answer_from_code")
    /\ \E resp \in Asked(AnswerResponses) :
          IF llm /\ resp.kind = "throw"
          THEN Throws("answer_from_code")
          ELSE /\ state' = nodeAnswerFromCode(state, resp)
               /\ pc' = afterAnswer(state')
               /\ log' = Append(log, "answer_from_code")
               /\ UNCHANGED <<env, llm, call>>

DecideFilesAgain ==
    /\ Runs("decide_files_again")
    /\ \E resp \in Asked(DecideResponses) :
          IF llm /\ resp.kind = "throw"
          THEN Throws("decide_files_again")
          ELSE Goes("decide_files_again", decideFilesAgain(state, resp))

NoCall == [fn |-> "none", plan |-> EmptyPlan, budget |-> 0, k |-> 0, out |-> <<>>]

LibCall(fn, in, out) == [fn |-> fn, in |-> in, out |-> out]

\* configurations of the runs: MAX_LOOPS 0, 1 (the default) and 2, and one with
\* a context window and a file-count cap
RunEnvs ==
    {[DefaultEnv EXCEPT !.MAX_LOOPS = m] : m \in {0, 1, 2}}
    \cup {[DefaultEnv EXCEPT !.MODEL_CTX_TOKENS = 2761, !.PROMPT_MAX_FILES = 1]}

Init ==
    /\ pc = "load_filtered"
    /\ \E q \in QuestionPool : state = initialState(q)
    /\ env \in RunEnvs
    /\ llm \in BOOLEAN
    /\ log = <<>>
    /\ call = NoCall

Next ==
    \/ LoadFiltered
    \/ DecideFiles
    \/ GetDetails
    \/ PruneAst
    \/ SelectCodeRanges
    \/ LoadCodeSlices
    \/ AnswerFromCode
    \/ DecideFilesAgain

Spec == Init /\ [][Next]_vars

----------------------------------------------------------------------------
(* The prune functions applied to drawn inputs: applyPrunePlan,            *)
(* trimToTokenBudget and rankAndTrim, each called once on a tree list.     *)

\* a path with an upper-case letter
FilePy == <<"F", ".", "p", "y">>

InputQuestions == QuestionPool \cup {<<"F">>}

InputFiles == {FileTs, FileJs, FilePy}

\* tree lists of at most MaxTrees files, no file twice
InputAstLists ==
    UNION { { [i \in 1..Len(fs) |->
                 DetailedAst(fs[i], getLanguageByExt(ExtName(fs[i]))[1], ts[i])]
              : ts \in [1..Len(fs) -> TreePool] }
            : fs \in DistinctSeqs(InputFiles, MaxTrees) }

\* configurations of the caps: none; a window too small for the fixed prompt;
\* windows leaving a budget of 1 to 4 tokens; static caps; enforcement off
InputEnvs ==
    { DefaultEnv,
      [DefaultEnv EXCEPT !.MODEL_CTX_TOKENS = 2000],
      [DefaultEnv EXCEPT !.MODEL_CTX_TOKENS = 2000, !.MAX_AST_TOKENS = 2],
      [DefaultEnv EXCEPT !.MODEL_CTX_TOKENS = 2760],
      [DefaultEnv EXCEPT !.MODEL_CTX_TOKENS = 2763, !.PROMPT_MAX_FILES = 1],
      [DefaultEnv EXCEPT !.MAX_AST_TOKENS = 2],
      [DefaultEnv EXCEPT !.PROMPT_MAX_FILES = 1],
      [DefaultEnv EXCEPT !.PRUNE_ALLOW_DROP_ALL = FALSE],
      [DefaultEnv EXCEPT !.PRUNE_SERVER_ENFORCE_LIMITS = FALSE,
                         !.MODEL_CTX_TOKENS = 2760, !.PROMPT_MAX_FILES = 1] }

InputSliceRules ==
    { <<>>,
      <<Rule(FileTs, <<FunctionHints>>, <<>>)>>,
      <<Rule(FileTs, <<Hints(<< <<"f">>, <<"g">> >>, <<>>, <<>>, <<>>)>>, <<>>)>>,
      <<Rule(FileTs, <<TypesOnlyHints>>, <<>>)>>,
      <<Rule(FileTs, <<>>, << <<"0", ".", "0">>, <<"9">> >>)>>,
      <<Rule(FileJs, <<FunctionHints>>, << <<"x">> >>), Rule(FilePy, <<>>, << <<"-", "1">> >>)>> }

InputPlans ==
    { Plan(mode, keep, slice, drop) :
        mode \in {"DROP_ALL", "KEEP_SOME"},
        keep \in {<<>>, <<FileTs>>, <<FileTs, FileJs>>},
        slice \in InputSliceRules,
        drop \in {<<>>, <<FileJs>>, <<FileTs>>} }

InitFn ==
    /\ pc = "call"
    /\ \E q \in InputQuestions, asts \in InputAstLists :
          state = [initialState(q) EXCEPT !.filteredAst = <<[files |-> IndexFiles]>>,
                                          !.detailedAsts = asts]
    /\ env \in InputEnvs
    /\ llm = FALSE
    /\ log = <<>>
    /\ call = NoCall

CallApplyPrunePlan ==
    /\ pc = "call"
    /\ \E plan \in InputPlans :
          /\ state' = applyPrunePlan(state, plan)
          /\ call' = [NoCall EXCEPT !.fn = "applyPrunePlan", !.plan = plan]
    /\ pc' = "returned"
    /\ UNCHANGED <<env, llm, log>>

CallTrimToTokenBudget ==
    /\ pc = "call"
    /\ \E budget \in (0 - 1)..MaxBudget :
          call' = [NoCall EXCEPT !.fn = "trimToTokenBudget", !.budget = budget,
                                 !.out = trimToTokenBudget(state.detailedAsts, budget)]
    /\ pc' = "returned"
    /\ UNCHANGED <<state, env, llm, log>>

CallRankAndTrim ==
    /\ pc = "call"
    /\ \E k \in (0 - 1)..MaxK :
          call' = [NoCall EXCEPT !.fn = "rankAndTrim", !.k = k,
                                 !.out = rankAndTrim(state.detailedAsts, state.question, k)]
    /\ pc' = "returned"
    /\ UNCHANGED <<state, env, llm, log>>

\* path lists: in and out of range, negative, not numeric, empty, repeated,
\* in an order that is not the order of the nodes in the tree
InputPathLists ==
    { << <<"0">> >>,
      << <<"1">>, <<"0">> >>,
      << <<"0", ".", "0">>, <<"9">> >>,
      << <<"x">>, <<"1">> >>,
      << <<"-", "1">> >>,
      << <<"0", ".", "x">>, <<"9">>, <<"x">> >>,
      << <<"1", ".", "0">> >>,
      << <<>> >>,
      << <<"0">>, <<"0">> >> }

CallSliceByPaths ==
    /\ pc = "call"
    /\ \E i \in 1..Len(state.detailedAsts), paths \in InputPathLists :
          call' = LibCall("sliceByPaths",
                          [ast |-> state.detailedAsts[i], paths |-> paths],
                          sliceByPaths(state.detailedAsts[i], paths))
    /\ pc' = "returned"
    /\ UNCHANGED <<state, env, llm, log>>

\* the estimate of the tree list and of the list extended by one more tree
CallEstimateTokensForAsts ==
    /\ pc = "call"
    /\ \E root \in TreePool :
          LET t == DetailedAst(FileJs, getLanguageByExt(ExtName(FileJs))[1], root)
          IN call' = LibCall("estimateTokensForAsts",
                             [asts |-> state.detailedAsts, t |-> t],
                             [list |-> estimateTokensForAsts(state.detailedAsts),
                              extended |-> estimateTokensForAsts(
                                               Append(state.detailedAsts, t))])
    /\ pc' = "returned"
    /\ UNCHANGED <<state, env, llm, log>>

NextFn ==
    \/ CallApplyPrunePlan
    \/ CallTrimToTokenBudget
    \/ CallRankAndTrim
    \/ CallSliceByPaths
    \/ CallEstimateTokensForAsts

SpecFn == InitFn /\ [][NextFn]_vars

----------------------------------------------------------------------------
(* Two runs of the graph in one process (graph/run.ts). The GraphState of a  *)
(* run is an object of its own; its _trace is an object the nodes write to   *)
(* in place, so the runs are modelled over a heap of trace objects. Every    *)
(* access of a node to the trace stands after its last await, so a node is   *)
(* one step of its run and the steps of the runs interleave freely.          *)

RunIds == {1, 2}

\* mutant: the trace is one object of the module, handed to every run
allocTrace_moduleLevel(heap) == 1

\* the object literal of initialState's _trace: the address of a new object
allocTrace(heap) == Len(heap) + 1

\* the inputs a node of a concurrent run can meet
ChoicesAt(node, st) ==
    CASE node = "load_filtered" -> {"index"}
      [] node \in {"decide_files", "decide_files_again"} ->
            { DecideResponse("json", <<FileTs>>, <<FunctionHints>>),
              DecideResponse("json", <<FileJs, FileMd>>, <<>>) }
      [] node = "get_details" ->
            { [i \in 1..Len(st.wantFiles) |-> b] : b \in BOOLEAN }
      [] node = "prune_ast" ->
            { PlanResponse("json", Plan("KEEP_SOME", <<FileTs, FileJs>>, <<>>, <<>>)),
              PlanResponse("throw", EmptyPlan) }
      [] node = "select_code_ranges" ->
            { RangeResponse("json", <<Range(FileTs, 2, 9), Range(FileDotTs, 0, 1)>>) }
      [] node = "load_code_slices" -> {"none"}
      [] node = "answer_from_code" ->
            { AnswerResponse("json", "oracle answer", NoFollowups),
              AnswerResponse("json", "oracle answer",
                             [array |-> TRUE, items |-> << <<"F", "i", "l", "e">> >>]) }

\* one node of the graph applied to the state of a run: the node that runs
\* next and the state it returns
nodeStep(node, st, c) ==
    LET goes(next) == [pc |-> NextNode(node), state |-> next]
        throws == [pc |-> "failed", state |-> st]
    IN CASE node = "load_filtered" ->
              goes([st EXCEPT !.filteredAst = <<[files |-> IndexFiles]>>])
         [] node = "decide_files" ->
              IF st.filteredAst = <<>> \/ (llm /\ c.kind = "throw") THEN throws
              ELSE goes(nodeDecideFiles(st, c))
         [] node = "get_details" -> goes(nodeGetDetailedAsts(st, c))
         [] node = "prune_ast" ->
              IF st.detailedAsts # <<>> /\ llm /\ c.kind = "throw" THEN throws
              ELSE goes(nodePruneAst(st, c))
         [] node = "select_code_ranges" ->
              IF sourceForPlan(st) # <<>> /\ llm /\ c.kind = "throw" THEN throws
              ELSE goes(nodeSelectCodeRanges(st, c))
         [] node = "load_code_slices" -> goes(nodeLoadCodeSlices(st))
         [] node = "answer_from_code" ->
              IF llm /\ c.kind = "throw" THEN throws
              ELSE LET next == nodeAnswerFromCode(st, c)
                   IN [pc |-> afterAnswer(next), state |-> next]
         [] node = "decide_files_again" ->
              IF llm /\ c.kind = "throw" THEN throws
              ELSE goes(decideFilesAgain(st, c))

\* the state of run r as its nodes see it: the record with its trace object
StateOfRun(r) == [state.runs[r] EXCEPT !._trace = state.heap[state.runs[r]._trace]]

InitPar ==
    /\ pc = [r \in RunIds |-> "idle"]
    /\ state = [runs |-> [r \in RunIds |-> <<>>], heap |-> <<>>]
    /\ env = DefaultEnv
    /\ llm = TRUE
    /\ log = [r \in RunIds |-> <<>>]
    /\ call = NoCall

\* runGraph(question): initialState, then the graph is invoked on it
ParStart(r) ==
    /\ pc[r] = "idle"
    /\ \E q \in QuestionPool :
          LET init == initialState(q)
              a    == allocTrace(state.heap)
          IN /\ state' = [runs |-> [state.runs EXCEPT ![r] = [init EXCEPT !._trace = a]],
                          heap |-> IF a > Len(state.heap)
                                   THEN Append(state.heap, init._trace) ELSE state.heap]
             /\ log' = [log EXCEPT ![r] = <<[node |-> "start", choice |-> q]>>]
    /\ pc' = [pc EXCEPT ![r] = "load_filtered"]
    /\ UNCHANGED <<env, llm, call>>

\* the next node of run r runs to its end
ParStep(r) ==
    /\ pc[r] \notin {"idle", "END", "failed"}
    /\ Len(log[r]) < MaxParSteps
    /\ \E c \in ChoicesAt(pc[r], StateOfRun(r)) :
          LET out == nodeStep(pc[r], StateOfRun(r), c)
              a   == state.runs[r]._trace
          IN /\ state' = [runs |-> [state.runs EXCEPT ![r] = [out.state EXCEPT !._trace = a]],
                          heap |-> [state.heap EXCEPT ![a] = out.state._trace]]
             /\ pc' = [pc EXCEPT ![r] = out.pc]
             /\ log' = [log EXCEPT ![r] = Append(@, [node |-> pc[r], choice |-> c])]
    /\ UNCHANGED <<env, llm, call>>

NextPar ==
    \/ \E r \in RunIds : ParStart(r)
    \/ \E r \in RunIds : ParStep(r)

SpecPar == InitPar /\ [][NextPar]_vars

----------------------------------------------------------------------------
(* Properties of the exploration state machine (checked under Spec) *)

\* how many times a node has executed
Count(node) == Cardinality({i \in 1..Len(log) : log[i] = node})

LastNode == IF log = <<>> THEN "START" ELSE log[Len(log)]

\* the stages in their fixed order; the loop-back variant of decide_files has
\* the position of decide_files
StageNo(node) ==
    CASE node = "load_filtered"      -> 1
      [] node = "decide_files"       -> 2
      [] node = "decide_files_again" -> 2
      [] node = "get_details"        -> 3
      [] node = "prune_ast"          -> 4
      [] node = "select_code_ranges" -> 5
      [] node = "load_code_slices"   -> 6
      [] node = "answer_from_code"   -> 7
      [] OTHER                       -> 0

\* the follow-up hints ask for more and a requested file is in no iteration's
\* parsed list
HintsAskForMore ==
    /\ state.followups.array
    /\ state.followups.items # <<>>
    /\ wantsMore(Join(state.followups.items, <<" ">>))

RequestsUnparsedFile ==
    \E i \in 1..Len(state.wantFiles) :
        \A j \in 1..Len(state._trace.filesParsed) :
            state.wantFiles[i] \notin Elems(state._trace.filesParsed[j])

\* C1 (as claimed): the back-edge from answer to decide_files is taken at most
\* once in a run, so decide_files (with its loop-back variant) and every stage
\* after it execute at most twice.
C1_BackEdgeAtMostOnce ==
    /\ Count("decide_files_again") <= 1
    /\ Count("decide_files") + Count("decide_files_again") <= 2
    /\ \A node \in {"get_details", "prune_ast", "select_code_ranges",
                    "load_code_slices", "answer_from_code"} : Count(node) <= 2

\* C6: when the prune stage ends with droppedAll = true, droppedAll is still true
\* when the answer stage of that iteration runs, and that answer stage is the
\* last node of the run, whatever follow-ups and wantFiles the state holds.
C6_DroppedAllIsTerminal ==
    [][ /\ (pc \in {"select_code_ranges", "load_code_slices"}
              => state'.droppedAll = state.droppedAll)
        /\ (pc = "answer_from_code" /\ state.droppedAll
              => pc' \in {"END", "failed"}) ]_vars

\* C6 witness: a run that ended after an answer whose follow-ups ask for more and
\* whose wantFiles name an unparsed file, the prune having dropped everything
C6_Witness ==
    /\ pc = "END"
    /\ LastNode = "answer_from_code"
    /\ state.droppedAll
    /\ HintsAskForMore
    /\ RequestsUnparsedFile

\* C7: the nodes executed follow the fixed order load_index, decide_files,
\* fetch_detail, prune, select_ranges, load_slices, answer: the first node is
\* load_index, which executes once; each node executed after another is the next
\* stage of the order, except decide_files after answer (the back-edge); the node
\* to run next obeys the same rule, and a run ends normally only after answer.
C7_FixedStageOrder ==
    /\ (log # <<>> => log[1] = "load_filtered" /\ Count("load_filtered") = 1)
    /\ \A i \in 1..(Len(log) - 1) :
          \/ StageNo(log[i + 1]) = StageNo(log[i]) + 1 /\ log[i + 1] # "decide_files_again"
          \/ log[i] = "answer_from_code" /\ log[i + 1] = "decide_files_again"
    /\ \/ pc = "failed"
       \/ pc = "END" /\ LastNode = "answer_from_code"
       \/ pc = "decide_files_again" /\ LastNode = "answer_from_code"
       \/ pc # "decide_files_again" /\ StageNo(pc) = StageNo(LastNode) + 1

\* C7 witness: a run that ended normally after one loop-back
C7_Witness ==
    /\ pc = "END"
    /\ Count("decide_files_again") = 1
    /\ Len(log) = 13

\* C8: after the answer stage the run loops back exactly when droppedAll is not
\* true, the follow-ups are a non-empty list whose joined text matches the
\* expansion pattern, and wantFiles holds a file that is in no iteration's
\* parsed list of the trace.
C8_ShouldLoopIffAllThree ==
    (LastNode = "answer_from_code" /\ pc \in {"END", "decide_files_again"})
        => ((pc = "decide_files_again")
                <=> (~state.droppedAll /\ HintsAskForMore /\ RequestsUnparsedFile))

\* C8 witness: a loop-back decided while trees were parsed and kept
C8_Witness ==
    /\ pc = "decide_files_again"
    /\ LastNode = "answer_from_code"
    /\ state.prunedAsts # <<>>
    /\ Flat(state._trace.filesParsed) # <<>>

\* C9 (as claimed): the number of loop-backs never exceeds MAX_LOOPS, so a run
\* under MAX_LOOPS = 0 has no loop-back.
C9_LoopBacksWithinMaxLoops == state._loopCount <= env.MAX_LOOPS

----------------------------------------------------------------------------
(* Properties of the prune functions (checked under SpecFn) *)

Applied == pc = "returned" /\ call.fn = "applyPrunePlan"

InPruned(f) == \E j \in 1..Len(state.prunedAsts) : state.prunedAsts[j].filePath = f

LastPruneTrace == state._trace.prune[Len(state._trace.prune)]

\* no server cap is configured
NoCapConfigured ==
    \/ ~env.PRUNE_SERVER_ENFORCE_LIMITS
    \/ (env.PROMPT_MAX_FILES <= 0 /\ env.MODEL_CTX_TOKENS <= 0 /\ env.MAX_AST_TOKENS <= 0)

\* max(0, floor((contextWindow - outputReserve - overhead) * safetyFraction))
UsableBudget ==
    Max(0, ((env.MODEL_CTX_TOKENS - env.OUTPUT_TOKENS_BUDGET
             - estimateFixedPromptTokens(state.question, state.filteredAst, TRUE, FALSE))
            * env.PROMPT_SAFETY_TENTHS) \div 10)

\* C2 (as claimed): for a non-DROP_ALL plan, with server enforcement enabled and
\* a positive context window, the estimate of the pruned set is at most the
\* usable budget.
C2_PrunedWithinUsableBudget ==
    (Applied /\ call.plan.mode # "DROP_ALL"
             /\ env.PRUNE_SERVER_ENFORCE_LIMITS /\ env.MODEL_CTX_TOKENS > 0)
        => estimateTokensForAsts(state.prunedAsts) <= UsableBudget

\* C3: for a non-DROP_ALL plan every input file is resolved by first match in the
\* order drop, keep_full, slice rule, default.  A file in drop is dropped (it is
\* in the applied drop list and not in the pruned set) whatever else names it; a
\* file in keep_full and not in drop is kept (not in the applied drop list), the
\* tree kept for it is the input tree itself, and it is in the pruned set unless
\* a server cap removes it afterwards; a file the plan names nowhere is dropped.
\* With no cap configured the pruned set is the kept files in input order, and
\* droppedAll tells whether it is empty.
C3_FirstMatchResolution ==
    (Applied /\ call.plan.mode # "DROP_ALL") =>
        LET plan    == call.plan
            asts    == state.detailedAsts
            applied == state.prunePlanApplied[1]
            named(f) == \E r \in 1..Len(plan.slice) : plan.slice[r].file = f
        IN /\ \A i \in 1..Len(asts) :
                LET f == asts[i].filePath
                IN /\ f \in Elems(plan.drop)
                        => f \in Elems(applied.drop) /\ ~InPruned(f)
                   /\ (f \notin Elems(plan.drop) /\ f \in Elems(plan.keep_full))
                        => /\ f \notin Elems(applied.drop)
                           /\ \A j \in 1..Len(state.prunedAsts) :
                                 state.prunedAsts[j].filePath = f
                                    => state.prunedAsts[j] = asts[i]
                           /\ (NoCapConfigured => InPruned(f))
                   /\ (f \notin Elems(plan.drop) /\ f \notin Elems(plan.keep_full)
                         /\ ~named(f))
                        => f \in Elems(applied.drop) /\ ~InPruned(f)
           /\ NoCapConfigured
                => filePaths(state.prunedAsts)
                     = SelectSeq(filePaths(asts), LAMBDA f : f \notin Elems(applied.drop))
           /\ state.droppedAll = (state.prunedAsts = <<>>)

\* C3 witness: keep_full = [f.ts], drop = [b.js] over the trees of f.ts and b.js
\* gives pruned = [f.ts unmodified] and droppedAll = false
C3_Witness ==
    /\ Applied
    /\ call.plan = Plan("KEEP_SOME", <<FileTs>>, <<>>, <<FileJs>>)
    /\ filePaths(state.detailedAsts) = <<FileTs, FileJs>>
    /\ state.prunedAsts = <<state.detailedAsts[1]>>
    /\ ~state.droppedAll

\* C4: under mode DROP_ALL with drop-all permitted, applyPrunePlan returns an
\* empty pruned set, droppedAll = true and a trace entry with estTokensAfter = 0,
\* no kept file and every input file dropped, for any number of input trees and
\* whatever keep_full, slice and drop the plan holds.
C4_DropAllEmptiesEverything ==
    (Applied /\ call.plan.mode = "DROP_ALL" /\ env.PRUNE_ALLOW_DROP_ALL)
        => /\ state.prunedAsts = <<>>
           /\ state.droppedAll
           /\ Len(state._trace.prune) = 1
           /\ LastPruneTrace.mode = "DROP_ALL"
           /\ LastPruneTrace.estTokensAfter = 0
           /\ LastPruneTrace.keptFiles = <<>>
           /\ LastPruneTrace.droppedFiles = filePaths(state.detailedAsts)
           /\ LastPruneTrace.plannedFiles = filePaths(state.detailedAsts)

\* C4 witness: DROP_ALL applied to two trees under a plan that also names a
\* keep_full file and a slice rule
C4_Witness ==
    /\ Applied
    /\ call.plan.mode = "DROP_ALL"
    /\ env.PRUNE_ALLOW_DROP_ALL
    /\ Len(state.detailedAsts) >= 2
    /\ call.plan.keep_full # <<>>
    /\ call.plan.slice # <<>>
    /\ state.prunedAsts = <<>>

Trimmed == pc = "returned" /\ call.fn = "trimToTokenBudget" /\ call.budget > 0

IsPrefix(p, s) == Len(p) <= Len(s) /\ p = SubSeq(s, 1, Len(p))

\* the sum of the estimates of the files taken one at a time
RECURSIVE SumOfEstimates(_)
SumOfEstimates(asts) ==
    IF asts = <<>> THEN 0
    ELSE estimateTokensForAsts(<<Head(asts)>>) + SumOfEstimates(Tail(asts))

\* C5 (as claimed): for a positive budget the result is a prefix of the input
\* whose estimate is at most the budget, and when the prefix is not the whole
\* input the estimate of the prefix extended by the next file exceeds the budget.
C5_MaximalPrefixByEstimate ==
    Trimmed =>
        LET in == state.detailedAsts
            out == call.out
        IN /\ IsPrefix(out, in)
           /\ estimateTokensForAsts(out) <= call.budget
           /\ Len(out) < Len(in)
                => estimateTokensForAsts(Append(out, in[Len(out) + 1])) > call.budget

\* C5 (amended): for a positive budget the result is a prefix of the input for
\* which the sum of the files' own estimates, hence also the estimate of the
\* prefix, is at most the budget, and when the prefix is not the whole input
\* that sum plus the next file's own estimate exceeds the budget.
C5_MaximalPrefixBySum ==
    Trimmed =>
        LET in == state.detailedAsts
            out == call.out
        IN /\ IsPrefix(out, in)
           /\ SumOfEstimates(out) <= call.budget
           /\ estimateTokensForAsts(out) <= call.budget
           /\ Len(out) < Len(in)
                => SumOfEstimates(out) + estimateTokensForAsts(<<in[Len(out) + 1]>>)
                     > call.budget

\* C5 witness: a file is cut off although the estimate of the prefix extended by
\* it would still fit the budget
C5_Witness ==
    /\ Trimmed
    /\ call.out # <<>>
    /\ Len(call.out) < Len(state.detailedAsts)
    /\ estimateTokensForAsts(Append(call.out, state.detailedAsts[Len(call.out) + 1]))
         <= call.budget

Ranked == pc = "returned" /\ call.fn = "rankAndTrim"

\* C10 (as claimed): for every k, rankAndTrim returns at most k items.
C10_AtMostK == Ranked => Len(call.out) <= call.k

\* C10 (amended): for every k > 0 rankAndTrim returns at most k items; for
\* k <= 0 it returns its input unchanged.
C10_AtMostPositiveK ==
    Ranked => /\ call.k > 0 => Len(call.out) <= call.k
              /\ call.k <= 0 => call.out = state.detailedAsts

\* C10 witness: a list longer than a positive k cut down to k items
C10_Witness ==
    /\ Ranked
    /\ call.k > 0
    /\ Len(state.detailedAsts) > call.k
    /\ Len(call.out) = call.k


\* the score as the claim words it: the path is taken as it is
ScoreByPathAsIs(a, question) ==
    (IF Includes(a.filePath, ToLower(question)) THEN 3 ELSE 0)
    + Min(3, Len(a.root.children))

\* the score with the path lower-cased too, and nothing added for an empty question
ScoreIgnoringCase(a, question) ==
    (IF question # <<>> /\ Includes(ToLower(a.filePath), ToLower(question)) THEN 3 ELSE 0)
    + Min(3, Len(a.root.children))

\* C11 (as claimed): for every tree list, question and k the returned list is
\* sorted by non-increasing score, the score being 3 for a path that contains
\* the lower-cased question plus min(3, top-level children).
C11_AlwaysSortedByScore ==
    Ranked => \A i, j \in 1..Len(call.out) :
                 i < j => ScoreByPathAsIs(call.out[i], state.question)
                            >= ScoreByPathAsIs(call.out[j], state.question)

\* C11 (amended): when k > 0 and the list is longer than k, the returned list
\* holds k of the input trees sorted by non-increasing score, trees of equal
\* score in input order, and no omitted tree scores higher than a returned one,
\* the score comparing the lower-cased path with the lower-cased non-empty
\* question; otherwise the input is returned in its given order.
C11_SortedWhenTrimmed ==
    Ranked =>
        LET in == state.detailedAsts
            out == call.out
            q == state.question
            pos(a) == CHOOSE i \in 1..Len(in) : in[i] = a
        IN IF call.k > 0 /\ Len(in) > call.k
           THEN /\ Len(out) = call.k
                /\ Elems(out) \subseteq Elems(in)
                /\ \A i, j \in 1..Len(out) :
                      i < j => \/ ScoreIgnoringCase(out[i], q) > ScoreIgnoringCase(out[j], q)
                               \/ /\ ScoreIgnoringCase(out[i], q) = ScoreIgnoringCase(out[j], q)
                                  /\ pos(out[i]) < pos(out[j])
                /\ \A a \in Elems(in) \ Elems(out) : \A b \in Elems(out) :
                      ScoreIgnoringCase(a, q) <= ScoreIgnoringCase(b, q)
           ELSE out = in

\* C11 witness: two trees returned out of three, in another order than given
C11_Witness ==
    /\ Ranked
    /\ call.k = 2
    /\ Len(state.detailedAsts) = 3
    /\ call.out = <<state.detailedAsts[3], state.detailedAsts[1]>>
    /\ ScoreIgnoringCase(call.out[1], state.question)
         > ScoreIgnoringCase(call.out[2], state.question)


PruneCompleted == LastNode = "prune_ast" /\ pc = "select_code_ranges"

\* C12 (as claimed): after every completion of the prune stage, for any set of
\* detailed trees including the empty set, droppedAll is true exactly when
\* prunedAsts is empty.
C12_DroppedAllIffPrunedEmpty ==
    PruneCompleted => (state.droppedAll <=> state.prunedAsts = <<>>)

\* C12 (amended): after every completion of the prune stage over at least one
\* detailed tree, droppedAll is true exactly when prunedAsts is empty; over no
\* detailed tree the stage leaves prunedAsts empty and droppedAll false.
C12_DroppedAllIffPrunedEmptyOfSome ==
    PruneCompleted =>
        IF state.detailedAsts # <<>>
        THEN state.droppedAll <=> state.prunedAsts = <<>>
        ELSE state.prunedAsts = <<>> /\ ~state.droppedAll

\* C12 witness: in a second iteration a plan other than DROP_ALL leaves nothing
\* of the parsed trees
C12_Witness ==
    /\ PruneCompleted
    /\ Count("prune_ast") = 2
    /\ state.detailedAsts # <<>>
    /\ state.prunePlan[1].mode # "DROP_ALL"
    /\ state.prunedAsts = <<>>
    /\ state.droppedAll


DecisionPoints ==
    {"decide_files", "decide_files_again", "prune_ast", "select_code_ranges",
     "answer_from_code"}

\* C13 (as claimed): no error leaves a decision point because of the oracle's
\* response: a run that failed in a decision stage failed for the one other
\* reason there is, a missing index at file selection.
C13_NoOracleErrorLeavesADecisionPoint ==
    (pc = "failed" /\ LastNode \in DecisionPoints)
        => (LastNode = "decide_files" /\ state.filteredAst = <<>>)

----------------------------------------------------------------------------
(* The index build (ast/gen_filtered.ts) *)

FileC == <<"a", ".", "c">>
FileGone == <<"g", ".", "t", "s">>                  \* not on disk

\* the characters of the model's paths in collation order
Alphabet ==
    <<".", "/", "a", "b", "c", "d", "f", "F", "g", "j", "m", "o", "p", "s", "t", "u", "x", "y">>

CharRank(c) == CHOOSE i \in 1..Len(Alphabet) : Alphabet[i] = c

\* a.localeCompare(b) <= 0 on these paths
RECURSIVE LocaleLeq(_, _)
LocaleLeq(a, b) ==
    IF a = <<>> THEN TRUE
    ELSE IF b = <<>> THEN FALSE
    ELSE IF Head(a) = Head(b) THEN LocaleLeq(Tail(a), Tail(b))
    ELSE CharRank(Head(a)) < CharRank(Head(b))

\* index.sort((a, b) => a.file.localeCompare(b.file))
RECURSIVE insertByFile(_, _)
insertByFile(sorted, f) ==
    IF sorted = <<>> THEN <<f>>
    ELSE IF LocaleLeq(Head(sorted), f) THEN <<Head(sorted)>> \o insertByFile(Tail(sorted), f)
    ELSE <<f>> \o sorted

RECURSIVE sortByFile(_, _)
sortByFile(done, rest) ==
    IF rest = <<>> THEN done
    ELSE sortByFile(insertByFile(done, Head(rest)), Tail(rest))

\* parseOneForFiltered: <<file>> for an item, <<>> for null (no grammar) and
\* for a throw (ok = FALSE: the file cannot be read or parsed)
parseOneForFiltered(fileAbs, ok) ==
    IF getLanguageByExt(ToLower(ExtName(fileAbs))) = <<>> THEN <<>>
    ELSE IF ok THEN <<fileAbs>>
    ELSE <<>>

\* mutant: the first failing file ends the loop
RECURSIVE buildLoop_abortsOnError(_, _)
buildLoop_abortsOnError(filesAbs, oks) ==
    IF filesAbs = <<>> THEN <<>>
    ELSE IF ~Head(oks) THEN <<>>
    ELSE parseOneForFiltered(Head(filesAbs), Head(oks))
         \o buildLoop_abortsOnError(Tail(filesAbs), Tail(oks))

\* the loop of buildFilteredAst: a throw is caught and the file left out
RECURSIVE buildLoop(_, _)
buildLoop(filesAbs, oks) ==
    IF filesAbs = <<>> THEN <<>>
    ELSE parseOneForFiltered(Head(filesAbs), Head(oks))
         \o buildLoop(Tail(filesAbs), Tail(oks))

\* buildFilteredAst on the files walkSupportedFiles found
buildFilteredAst(filesAbs, oks) == [files |-> sortByFile(<<>>, buildLoop(filesAbs, oks))]

----------------------------------------------------------------------------
(* POST /ast/detailed (server/http.ts) *)

\* the error fs.stat or parseFileToAST throws for a file, "none" when it parses:
\* the file is looked up, then read, then its extension is mapped
parseError(rel, ok) ==
    LET p == NormalizePath(rel)
    IN IF p \notin FilesOnDisk THEN "ENOENT"
       ELSE IF ~ok THEN "EIO"
       ELSE IF getLanguageByExt(ToLower(ExtName(p))) = <<>> THEN "Unsupported extension"
       ELSE "none"

HttpResponse(status, ok, error, detailedAsts) ==
    [status |-> status, ok |-> ok, error |-> error, detailedAsts |-> detailedAsts]

\* mutant: a file that fails is left out of the answer
postAstDetailed_skipsFailures(files, oks) ==
    IF files = <<>>
    THEN HttpResponse(400, FALSE, "files must be a non-empty array", <<>>)
    ELSE HttpResponse(200, TRUE, "",
                      Flat([i \in 1..Len(files) |-> parseFileToAST(files[i], oks[i])]))

\* the handler of POST /ast/detailed: the first error ends the loop and is the
\* answer
postAstDetailed(files, oks) ==
    LET bad == {i \in 1..Len(files) : parseError(files[i], oks[i]) # "none"}
        first == CHOOSE i \in bad : \A j \in bad : i <= j
    IN IF files = <<>>
       THEN HttpResponse(400, FALSE, "files must be a non-empty array", <<>>)
       ELSE IF bad # {}
       THEN HttpResponse(500, FALSE, parseError(files[first], oks[first]), <<>>)
       ELSE HttpResponse(200, TRUE, "",
                         Flat([i \in 1..Len(files) |-> parseFileToAST(files[i], oks[i])]))

----------------------------------------------------------------------------
(* Operations called on their own: the index build, the fetch of detailed  *)
(* trees, the slicers, the estimator and the code loader, each called once  *)
(* on drawn inputs.                                                         *)

\* configurations of the code loader's caps
LibEnvs ==
    { [DefaultEnv EXCEPT !.CODE_MAX_FILES = n, !.CODE_MAX_BYTES = b, !.MAX_CODE_TOKENS = t] :
        n \in {0, 1, 2}, b \in {0, 4}, t \in {0, 1} }

\* the files walkSupportedFiles can find, and the files a request can name
WalkFiles == {FileTs, FileJs, FileC}
WantPool == {FileTs, FileJs, FileMd, FileDotTs, FileGone}

InitLib ==
    /\ pc = "call"
    /\ state = [initialState(<<>>) EXCEPT !.filteredAst = <<[files |-> IndexFiles]>>]
    /\ env \in LibEnvs
    /\ llm = FALSE
    /\ log = <<>>
    /\ call = NoCall

Returns == pc' = "returned" /\ UNCHANGED <<env, llm, log>>

CallBuildFilteredAst ==
    /\ pc = "call"
    /\ \E files \in DistinctSeqs(WalkFiles, MaxTrees) :
          \E oks \in [1..Len(files) -> BOOLEAN] :
             call' = LibCall("buildFilteredAst", [files |-> files, oks |-> oks],
                             buildFilteredAst(files, oks))
    /\ UNCHANGED state
    /\ Returns

CallGetDetailedAsts ==
    /\ pc = "call"
    /\ \E want \in SeqsUpTo(WantPool, MaxTrees) :
          \E oks \in [1..Len(want) -> BOOLEAN] :
             /\ state' = nodeGetDetailedAsts([state EXCEPT !.wantFiles = want], oks)
             /\ call' = LibCall("nodeGetDetailedAsts", [oks |-> oks], <<>>)
    /\ Returns

CallPostAstDetailed ==
    /\ pc = "call"
    /\ \E files \in SeqsUpTo(WantPool, MaxTrees) :
          \E oks \in [1..Len(files) -> BOOLEAN] :
             call' = LibCall("postAstDetailed", [files |-> files, oks |-> oks],
                             postAstDetailed(files, oks))
    /\ UNCHANGED state
    /\ Returns

\* line numbers: small ones around the lines of a file, and integers beyond
\* the 32-bit range
LineNumbers ==
    {JsInt(0, v) : v \in (0 - 1)..MaxLine} \cup {JsInt(1, v) : v \in 0..1}

CallReadFileLines ==
    /\ pc = "call"
    /\ \E file \in {FileTs, FileJs, FileGone}, lineStart \in LineNumbers, lineEnd \in LineNumbers :
          call' = LibCall("readFileLines",
                          [file |-> file, lineStart |-> lineStart, lineEnd |-> lineEnd],
                          readFileLines(file, lineStart, lineEnd))
    /\ UNCHANGED state
    /\ Returns

\* ranges a model can select: a whole file of 5 bytes, one line of it, a one-line
\* file, a file that cannot be read
RangePool ==
    {Range(FileTs, 1, 3), Range(FileTs, 2, 2), Range(FileJs, 1, 1), Range(FileGone, 1, 1)}

CallLoadCodeSlices ==
    /\ pc = "call"
    /\ \E ranges \in SeqsUpTo(RangePool, MaxRanges) :
          /\ state' = nodeLoadCodeSlices([state EXCEPT !.codeRanges = ranges])
          /\ call' = LibCall("nodeLoadCodeSlices", <<>>, <<>>)
    /\ Returns

\* slice hints: no symbol, one, two, the empty symbol; no type, a type of inner
\* nodes, a type of leaves; maxNodes absent, negative, 0 and up to MaxNodesHint
InputHints ==
    { Hints(symbols, hintTypes, <<>>, maxNodes) :
        symbols \in {<<>>, << <<"f">> >>, << <<"g">>, <<"x">> >>, << <<>> >>},
        hintTypes \in {<<>>, <<"function_declaration">>, <<"identifier">>},
        maxNodes \in {<<>>} \cup {<<n>> : n \in (0 - 1)..MaxNodesHint} }

CallSliceDetailedAST ==
    /\ pc = "call"
    /\ \E root \in TreePool, hints \in InputHints :
          LET fullAst == DetailedAst(FileTs, "typescript", root)
          IN call' = LibCall("sliceDetailedAST", [fullAst |-> fullAst, hints |-> hints],
                             sliceDetailedAST(fullAst, hints))
    /\ UNCHANGED state
    /\ Returns

\* options of topKTypes: stop set empty or not, the three normalize options,
\* types with or without their counts
TopKOptions ==
    [stopTypes : {{}, {"identifier"}},
     normalize : {"none", "mergeDeclarations", "eraseIdentifiers"},
     withCounts : BOOLEAN]

CallTopKTypes ==
    /\ pc = "call"
    /\ \E root \in TreePool, k \in {<<>>} \cup {<<n>> : n \in (0 - 1)..MaxTopK},
          opts \in TopKOptions :
          call' = LibCall("topKTypes", [root |-> root, k |-> k, opts |-> opts],
                          topKTypes(root, k, opts))
    /\ UNCHANGED state
    /\ Returns


-----------------------------------------------------------------------------
(* The walk of the project (ast/gen_filtered.ts) *)

\* the directory names isExcluded looks for
excludes ==
    { <<"n", "o", "d", "e", "_", "m", "o", "d", "u", "l", "e", "s">>,
      <<".", "g", "i", "t">>,
      <<"o", "u", "t">>,
      <<"b", "u", "i", "l", "d">>,
      <<"d", "i", "s", "t">>,
      <<"g", "e", "n">>,
      <<"g", "e", "n", "e", "r", "a", "t", "e", "d">>,
      <<"_", "_", "s", "n", "a", "p", "s", "h", "o", "t", "s", "_", "_">>,
      <<"_", "_", "f", "i", "x", "t", "u", "r", "e", "s", "_", "_">>,
      <<".", "n", "e", "x", "t">>,
      <<".", "t", "u", "r", "b", "o">> }

\* the extensions walkSupportedFiles collects
exts ==
    { <<".", "j", "s">>,
      <<".", "j", "s", "x">>,
      <<".", "t", "s">>,
      <<".", "t", "s", "x">>,
      <<".", "h", "t", "m", "l">>,
      <<".", "c", "s", "s">>,
      <<".", "c">>,
      <<".", "c", "c">>,
      <<".", "c", "p", "p">>,
      <<".", "c", "x", "x">>,
      <<".", "h">>,
      <<".", "h", "h">>,
      <<".", "h", "p", "p">>,
      <<".", "h", "x", "x">>,
      <<".", "j", "a", "v", "a">>,
      <<".", "k", "t">>,
      <<".", "k", "t", "s">> }

\* isExcluded: some segment of the path is an excluded name
isExcluded(p) ==
    LET parts == Split(p, "/")
    IN \E n \in 1..Len(parts) : parts[n] \in excludes

\* a Dirent
Dirent(name, isDirectory) == [name |-> name, isDirectory |-> isDirectory]

\* path.join(dir, name)
PathJoin(dir, name) == dir \o <<"/">> \o name

\* path.relative(from, to) for a path below from
PathRelative(from, to) == SubSeq(to, Len(from) + 2, Len(to))

DirOut == <<"o", "u", "t">>
DirD   == <<"d">>
FileX  == <<"x", ".", "t", "s">>

\* the places a project can be checked out at
RootPool == { <<"/", "p">>, <<"/", "d", "/", "p">>, <<"/", "o", "u", "t", "/", "p">> }

\* fs.readdirSync(dir, { withFileTypes: true }) for the project checked out at
\* root: f.ts, c.md, out/b.js, d/a.c, d/out/x.ts
readdirSync(root, dir) ==
    CASE dir = root ->
            <<Dirent(FileTs, FALSE), Dirent(DirOut, TRUE), Dirent(DirD, TRUE),
              Dirent(FileMd, FALSE)>>
      [] dir = PathJoin(root, DirOut) -> <<Dirent(FileJs, FALSE)>>
      [] dir = PathJoin(root, DirD) -> <<Dirent(FileC, FALSE), Dirent(DirOut, TRUE)>>
      [] dir = PathJoin(PathJoin(root, DirD), DirOut) -> <<Dirent(FileX, FALSE)>>
      [] OTHER -> <<>>

\* the loop of walkSupportedFiles: the directory on top of the stack is skipped
\* when excluded, else its directories are pushed and its supported files kept
RECURSIVE walkLoop(_, _, _)
walkLoop(root, stk, out) ==
    IF stk = <<>> THEN out
    ELSE LET dir     == stk[Len(stk)]
             rest    == SubSeq(stk, 1, Len(stk) - 1)
             entries == readdirSync(root, dir)
             subdirs == SelectSeq(entries, LAMBDA e : e.isDirectory)
             files   == SelectSeq(entries,
                                  LAMBDA e : /\ ~e.isDirectory
                                             /\ ToLower(ExtName(e.name)) \in exts)
         IN IF isExcluded(dir) THEN walkLoop(root, rest, out)
            ELSE walkLoop(root,
                          rest \o [n \in 1..Len(subdirs) |-> PathJoin(dir, subdirs[n].name)],
                          out \o [n \in 1..Len(files) |-> PathJoin(dir, files[n].name)])

walkSupportedFiles(dirAbs) == walkLoop(dirAbs, <<dirAbs>>, <<>>)

\* buildFilteredAst(projectRoot) with PROJECT_ROOT = projectRoot, the files in
\* failing being those that cannot be read or parsed
buildFilteredAstAt(projectRoot, failing) ==
    LET filesAbs == walkSupportedFiles(projectRoot)
        files    == [n \in 1..Len(filesAbs) |-> PathRelative(projectRoot, filesAbs[n])]
    IN buildFilteredAst(files, [n \in 1..Len(files) |-> files[n] \notin failing])

\* the source files of the project, relative to its root
ProjectSources ==
    { FileTs, PathJoin(DirOut, FileJs), PathJoin(DirD, FileC),
      PathJoin(PathJoin(DirD, DirOut), FileX) }

CallBuildFilteredAstAt ==
    /\ pc = "call"
    /\ \E projectRoot \in RootPool, failing \in SUBSET ProjectSources :
          call' = LibCall("buildFilteredAstAt",
                          [projectRoot |-> projectRoot, failing |-> failing],
                          buildFilteredAstAt(projectRoot, failing))
    /\ UNCHANGED state
    /\ Returns

NextLib ==
    \/ CallBuildFilteredAst
    \/ CallGetDetailedAsts
    \/ CallPostAstDetailed
    \/ CallReadFileLines
    \/ CallLoadCodeSlices
    \/ CallSliceDetailedAST
    \/ CallTopKTypes
    \/ CallBuildFilteredAstAt

SpecLib == InitLib /\ [][NextLib]_vars

----------------------------------------------------------------------------
(* The index file on disk: ensureFilteredAst / writeFilteredAst rewrite it  *)
(* (ast/gen_filtered.ts) while loadFilteredAst reads it (ast/parse.ts).     *)
(* The text of the file is a sequence of tokens: an opening brace, one      *)
(* token per index entry, a closing brace.                                  *)

\* JSON.stringify(fa, null, 2)
JsonStringify(fa) ==
    <<[tok |-> "{"]>>
    \o [n \in 1..Len(fa.files) |-> [tok |-> "entry", entry |-> fa.files[n]]]
    \o <<[tok |-> "}"]>>

\* JSON.parse(raw): <<value>>, or <<>> when it throws a SyntaxError
JsonParse(raw) ==
    IF /\ Len(raw) >= 2
       /\ raw[1].tok = "{"
       /\ raw[Len(raw)].tok = "}"
       /\ \A n \in 2..(Len(raw) - 1) : raw[n].tok = "entry"
    THEN <<[files |-> [n \in 1..(Len(raw) - 2) |-> raw[n + 1].entry]]>>
    ELSE <<>>

\* loadFilteredAst(filePath): readFile, then JSON.parse
loadFilteredAst(disk) ==
    IF disk = <<>> THEN [kind |-> "ENOENT", index |-> <<>>]
    ELSE IF JsonParse(disk[1]) = <<>> THEN [kind |-> "SyntaxError", index |-> <<>>]
    ELSE [kind |-> "index", index |-> JsonParse(disk[1])]

\* the file is absent or holds a text; previous is the index it last held in
\* full, next the index a rebuild is writing
InitIdx ==
    /\ pc = "idle"
    /\ state = [disk |-> <<>>, previous |-> <<>>, next |-> <<>>, rebuilds |-> 0]
    /\ env = DefaultEnv
    /\ llm = FALSE
    /\ log = <<>>
    /\ call = NoCall

\* ensureFilteredAst: skipped when the file exists and no rebuild is forced,
\* else buildFilteredAst(env.PROJECT_ROOT)
IdxEnsure ==
    /\ pc = "idle"
    /\ state.rebuilds < MaxRebuilds
    /\ \E force \in BOOLEAN, filesAbs \in DistinctSeqs(WalkFiles, 2) :
          IF ~force /\ state.disk # <<>>
          THEN UNCHANGED <<pc, state>>
          ELSE /\ pc' = "built"
               /\ state' = [state EXCEPT
                              !.next = <<buildFilteredAst(filesAbs,
                                             [n \in 1..Len(filesAbs) |-> TRUE])>>,
                              !.rebuilds = @ + 1]
    /\ UNCHANGED <<env, llm, log, call>>

\* fsp.writeFile opens the file with flag 'w': created or truncated to nothing
IdxOpen ==
    /\ pc = "built"
    /\ pc' = "writing"
    /\ state' = [state EXCEPT !.disk = << <<>> >>]
    /\ UNCHANGED <<env, llm, log, call>>

\* fsp.writeFile writes the text in one or more chunks, then closes the file
IdxWrite ==
    /\ pc = "writing"
    /\ LET text == JsonStringify(state.next[1])
           done == Len(state.disk[1])
       IN \E upTo \in (done + 1)..Len(text) :
             /\ state' = [state EXCEPT
                            !.disk = <<SubSeq(text, 1, upTo)>>,
                            !.previous = IF upTo = Len(text) THEN state.next ELSE @]
             /\ pc' = IF upTo = Len(text) THEN "idle" ELSE "writing"
    /\ UNCHANGED <<env, llm, log, call>>

\* GET /ast/filtered or nodeLoadFilteredAst of a run: loadFilteredAst at any moment
IdxLoad ==
    /\ call' = LibCall("loadFilteredAst",
                       [writing |-> pc = "writing", previous |-> state.previous,
                        next |-> state.next],
                       loadFilteredAst(state.disk))
    /\ UNCHANGED <<pc, state, env, llm, log>>

NextIdx ==
    \/ IdxEnsure
    \/ IdxOpen
    \/ IdxWrite
    \/ IdxLoad

SpecIdx == InitIdx /\ [][NextIdx]_vars

Built == pc = "returned" /\ call.fn = "buildFilteredAst"

Fetched == pc = "returned" /\ call.fn = "nodeGetDetailedAsts"

\* the requests of wantFiles that parse: read without error, on disk, with a
\* grammar for the extension
ParsedRequests ==
    SelectSeq([i \in 1..Len(state.wantFiles) |-> i],
              LAMBDA i : /\ call.in.oks[i]
                         /\ NormalizePath(state.wantFiles[i]) \in FilesOnDisk
                         /\ getLanguageByExt(ExtName(state.wantFiles[i])) # <<>>)

\* C14: a parse failure of one file aborts neither operation.  buildFilteredAst
\* returns the index of exactly the files that parsed, sorted, none twice.  The
\* fetch of detailed trees returns, with detailedAsts and the iteration's parsed
\* list holding exactly the requests that parsed, in request order, each with
\* the tree of its file.
C14_ParseFailureSkipsOneFile ==
    /\ Built =>
          LET files == call.in.files
              out == call.out.files
          IN /\ Elems(out) = {files[i] : i \in {j \in 1..Len(files) : call.in.oks[j]}}
             /\ Cardinality(Elems(out)) = Len(out)
             /\ \A i \in 1..(Len(out) - 1) : LocaleLeq(out[i], out[i + 1])
    /\ Fetched =>
          LET want == state.wantFiles
              asts == state.detailedAsts
          IN /\ Len(asts) = Len(ParsedRequests)
             /\ \A n \in 1..Len(asts) :
                   /\ asts[n].filePath = NormalizePath(want[ParsedRequests[n]])
                   /\ asts[n].root = FileTree(asts[n].filePath)
             /\ state._trace.filesParsed[state._trace.iterations + 1] = filePaths(asts)

\* C14 witness: of three requested files the second fails and the other two are
\* returned in request order
C14_Witness ==
    /\ Fetched
    /\ Len(state.wantFiles) = 3
    /\ ParsedRequests = <<1, 3>>
    /\ Len(state.detailedAsts) = 2
    /\ state.detailedAsts[1].filePath # state.detailedAsts[2].filePath


Answered == pc = "returned" /\ call.fn = "postAstDetailed"

\* a request for a file on disk that can be read and whose extension has no
\* language mapping
Unsupported(file, ok) ==
    /\ NormalizePath(file) \in FilesOnDisk
    /\ ok
    /\ getLanguageByExt(ExtName(file)) = <<>>

\* C15 (as claimed): an operation that was asked for a file whose extension has
\* no language mapping never returns normally with the file left out: the fetch
\* of detailed trees does not complete, and POST /ast/detailed answers with an
\* error.
C15_UnsupportedExtensionAlwaysRaised ==
    /\ Fetched => \A i \in 1..Len(state.wantFiles) :
                     ~Unsupported(state.wantFiles[i], call.in.oks[i])
    /\ Answered => \A i \in 1..Len(call.in.files) :
                     Unsupported(call.in.files[i], call.in.oks[i]) => ~call.out.ok

\* C15 (amended): parsing a file whose extension has no language mapping fails
\* with an unsupported-extension error.  POST /ast/detailed answers with an
\* error and no tree when a requested file is such a file, and the error is the
\* unsupported-extension error when no earlier file of the request failed.  The
\* fetch of detailed trees catches the error: it completes with the file left
\* out of detailedAsts and of the parsed list, the other files kept.
C15_UnsupportedExtensionRaisedByEndpointOnly ==
    /\ Answered =>
          \A i \in 1..Len(call.in.files) :
             Unsupported(call.in.files[i], call.in.oks[i])
                => /\ ~call.out.ok
                   /\ call.out.detailedAsts = <<>>
                   /\ (\A j \in 1..(i - 1) :
                          parseFileToAST(call.in.files[j], call.in.oks[j]) # <<>>)
                        => call.out.error = "Unsupported extension"
    /\ Fetched =>
          /\ \A i \in 1..Len(state.wantFiles) :
                Unsupported(state.wantFiles[i], call.in.oks[i])
                   => /\ ~Includes(filePaths(state.detailedAsts),
                                   <<NormalizePath(state.wantFiles[i])>>)
                      /\ ~Includes(state._trace.filesParsed[state._trace.iterations + 1],
                                   <<NormalizePath(state.wantFiles[i])>>)
          /\ Len(state.detailedAsts) = Len(ParsedRequests)

\* C15 witness: a fetch asked for a file without language mapping and for a
\* file that parses completes with the second alone
C15_Witness ==
    /\ Fetched
    /\ Len(state.wantFiles) = 2
    /\ Unsupported(state.wantFiles[1], call.in.oks[1])
    /\ filePaths(state.detailedAsts) = <<NormalizePath(state.wantFiles[2])>>


LinesRead == pc = "returned" /\ call.fn = "readFileLines" /\ call.out # <<>>

\* C17 (as claimed): for a readable file with L lines and any integers
\* startLine, endLine the text returned is the lines from s = max(1, startLine)
\* through min(L, max(s, endLine)) joined by newlines, empty when s > L.
C17_LinesOfTheClampedSpan ==
    LinesRead =>
        LET lines == Split(FileText(call.in.file), "\n")
            L == Len(lines)
            start == call.in.lineStart
            end == call.in.lineEnd
            \* max(1, startLine), L + 1 standing for every value above L
            s == IF start.hi > 0 THEN L + 1 ELSE Min(L + 1, Max(1, start.lo))
            \* min(L, max(s, endLine))
            e == IF end.hi > 0 THEN L ELSE Min(L, Max(s, end.lo))
        IN call.out[1] = IF s > L THEN <<>> ELSE Join(SubSeq(lines, s, e), <<"\n">>)


Loaded == pc = "returned" /\ call.fn = "nodeLoadCodeSlices"

TextOf(r) == readFileLines(r.file, r.startLine, r.endLine)

SliceOf(r) ==
    [file |-> r.file, startLine |-> r.startLine, endLine |-> r.endLine, code |-> TextOf(r)[1]]

\* the ranges considered, and those of them whose file can be read
ConsideredRanges ==
    IF env.CODE_MAX_FILES > 0
    THEN SubSeq(state.codeRanges, 1, Min(env.CODE_MAX_FILES, Len(state.codeRanges)))
    ELSE state.codeRanges

ReadableRanges == SelectSeq(ConsideredRanges, LAMBDA r : TextOf(r) # <<>>)

RECURSIVE BytesOf(_)
BytesOf(rs) == IF rs = <<>> THEN 0 ELSE Len(TextOf(Head(rs))[1]) + BytesOf(Tail(rs))

RECURSIVE TokensOf(_)
TokensOf(rs) ==
    IF rs = <<>> THEN 0 ELSE CeilDiv(Len(TextOf(Head(rs))[1]), 4) + TokensOf(Tail(rs))

\* the longest prefix of rs whose measure is at most cap
LongestPrefixWithin(rs, cap, Measure(_)) ==
    LET fits == {n \in 0..Len(rs) : Measure(SubSeq(rs, 1, n)) <= cap}
        most == CHOOSE n \in fits : \A m \in fits : m <= n
    IN IF fits = {} THEN <<>> ELSE SubSeq(rs, 1, most)

SlicesOf(rs) == [n \in 1..Len(rs) |-> SliceOf(rs[n])]

\* C16 (as claimed): the slices are those of the readable ranges among the first
\* CODE_MAX_FILES (when positive), in order, up to the first that would make
\* the cumulative size exceed CODE_MAX_BYTES, each with the whole text of its
\* span; so there are at most CODE_MAX_FILES slices and at most CODE_MAX_BYTES
\* bytes in total.
C16_SlicesWithinBothCaps ==
    Loaded =>
        /\ state.codeSlices
             = SlicesOf(LongestPrefixWithin(ReadableRanges, env.CODE_MAX_BYTES, BytesOf))
        /\ env.CODE_MAX_FILES > 0 => Len(state.codeSlices) <= env.CODE_MAX_FILES
        /\ BytesOf(state.codeSlices) <= env.CODE_MAX_BYTES

\* C16 (amended): as claimed when CODE_MAX_BYTES is positive and MAX_CODE_TOKENS
\* is not; CODE_MAX_BYTES <= 0 sets no byte cap, and a positive MAX_CODE_TOKENS
\* cuts the accepted slices down to their longest prefix whose token estimates,
\* ceil(characters / 4) each, sum to at most MAX_CODE_TOKENS.
C16_SlicesWithinTheCapsThatAreSet ==
    Loaded =>
        LET withinBytes == IF env.CODE_MAX_BYTES > 0
                           THEN LongestPrefixWithin(ReadableRanges, env.CODE_MAX_BYTES, BytesOf)
                           ELSE ReadableRanges
            withinTokens == IF env.MAX_CODE_TOKENS > 0
                            THEN LongestPrefixWithin(withinBytes, env.MAX_CODE_TOKENS, TokensOf)
                            ELSE withinBytes
        IN /\ state.codeSlices = SlicesOf(withinTokens)
           /\ env.CODE_MAX_FILES > 0 => Len(state.codeSlices) <= env.CODE_MAX_FILES
           /\ env.CODE_MAX_BYTES > 0 => BytesOf(state.codeSlices) <= env.CODE_MAX_BYTES

\* C16 witness: of three ranges the first cannot be read and is skipped, the
\* second is accepted, the third would overflow the byte cap and is dropped whole
C16_Witness ==
    /\ Loaded
    /\ env.CODE_MAX_FILES = 0 /\ env.CODE_MAX_BYTES > 0 /\ env.MAX_CODE_TOKENS = 0
    /\ Len(state.codeRanges) = 3
    /\ TextOf(state.codeRanges[1]) = <<>>
    /\ TextOf(state.codeRanges[3]) # <<>>
    /\ state.codeSlices = <<SliceOf(state.codeRanges[2])>>


SlicedByPaths == pc = "returned" /\ call.fn = "sliceByPaths"

\* the index segments of a path, and whether each is a non-negative integer
SegmentsOf(p) == SelectSeq(Split(p, "."), LAMBDA seg : seg # <<>>)

IndicesOf(p) == [n \in 1..Len(SegmentsOf(p)) |-> DigitsValue(SegmentsOf(p)[n], 0)]

RECURSIVE InRange(_, _)
InRange(node, idxs) ==
    \/ idxs = <<>>
    \/ /\ Head(idxs) < Len(node.children)
       /\ InRange(node.children[Head(idxs) + 1], Tail(idxs))

RECURSIVE NodeAt(_, _)
NodeAt(node, idxs) ==
    IF idxs = <<>> THEN node ELSE NodeAt(node.children[Head(idxs) + 1], Tail(idxs))

ValidPath(root, p) ==
    /\ \A n \in 1..Len(SegmentsOf(p)) : AllDigits(SegmentsOf(p)[n])
    /\ InRange(root, IndicesOf(p))

\* the rule of the plan that names file f, if the resolution gets as far as it
SliceRuleFor(plan, f) ==
    IF f \in Elems(plan.drop) \/ f \in Elems(plan.keep_full) THEN {}
    ELSE {plan.slice[r] : r \in {r \in 1..Len(plan.slice) : plan.slice[r].file = f}}

C18_WitnessOrder ==
    /\ SlicedByPaths
    /\ call.in.paths = << <<"1">>, <<"0">> >>
    /\ call.in.ast.root = TreeTwo
    /\ call.out.root.children = <<TreeTwo.children[2], TreeTwo.children[1]>>

\* a file whose only path is negative is dropped by applyPrunePlan
C18_WitnessDropped ==
    /\ Applied
    /\ call.plan.mode = "KEEP_SOME" /\ call.plan.drop = <<>> /\ call.plan.keep_full = <<>>
    /\ \E r \in 1..Len(call.plan.slice) :
          /\ call.plan.slice[r] = Rule(FilePy, <<>>, << <<"-", "1">> >>)
          /\ \E i \in 1..Len(state.detailedAsts) :
                /\ state.detailedAsts[i].filePath = FilePy
                /\ state.detailedAsts[i].root = TreeTwo
          /\ ~InPruned(FilePy)


SlicedByHints == pc = "returned" /\ call.fn = "sliceDetailedAST"

\* the nodes of a tree in depth-first pre-order
RECURSIVE PreOrder(_)
PreOrder(node) ==
    <<node>> \o Flat([n \in 1..Len(node.children) |-> PreOrder(node.children[n])])

TypeHinted(node, hints) == node.type \in Elems(hints.hintTypes)

ContainsSymbol(node, hints) ==
    \E n \in 1..Len(hints.symbols) : Includes(node.sample, hints.symbols[n])

\* the first min(maxNodes, number of matches) of the matches
FirstMatches(matches, hints) ==
    LET maxNodes == IF hints.maxNodes = <<>> THEN DefaultMaxNodes ELSE hints.maxNodes[1]
    IN SubSeq(matches, 1, Min(maxNodes, Len(matches)))

\* C19 (as claimed): the result is a root of type "root" whose children are the
\* first min(maxNodes, number of matches) matching nodes in depth-first
\* pre-order, a node matching iff its type is in hintTypes or its sample
\* contains one of symbols as a substring.
C19_FirstMatchesInPreOrder ==
    SlicedByHints =>
        LET hints   == call.in.hints
            matches == SelectSeq(PreOrder(call.in.fullAst.root),
                                 LAMBDA node : TypeHinted(node, hints)
                                               \/ ContainsSymbol(node, hints))
        IN /\ call.out.root.type = "root"
           /\ call.out.root.children = FirstMatches(matches, hints)

\* C19 (amended): as claimed, with a node of empty sample matching by its type
\* only: the empty symbol, a substring of every sample, matches no such node.
C19_FirstMatchesOfNonEmptySamples ==
    SlicedByHints =>
        LET hints   == call.in.hints
            matches == SelectSeq(PreOrder(call.in.fullAst.root),
                                 LAMBDA node : \/ TypeHinted(node, hints)
                                               \/ /\ node.sample # <<>>
                                                  /\ ContainsSymbol(node, hints))
        IN /\ call.out.root.type = "root"
           /\ call.out.root.children = FirstMatches(matches, hints)
           /\ call.out.filePath = call.in.fullAst.filePath

\* C19 witness: two function_declaration nodes and maxNodes = 1 give one child
C19_Witness ==
    /\ SlicedByHints
    /\ call.in.fullAst.root = TreeTwo
    /\ call.in.hints = Hints(<<>>, <<"function_declaration">>, <<>>, <<1>>)
    /\ call.out.root.children = <<TreeTwo.children[1]>>

\* a match under a match is a child of the root as well, after its ancestor
C19_WitnessNested ==
    /\ SlicedByHints
    /\ call.in.fullAst.root = TreeTwo
    /\ call.in.hints = Hints(<< <<"f">> >>, <<>>, <<>>, <<>>)
    /\ call.out.root.children
         = <<TreeTwo, TreeTwo.children[1], TreeTwo.children[1].children[1]>>


Estimated == pc = "returned" /\ call.fn = "estimateTokensForAsts"

\* every node of every tree of a list
NodesOf(asts) == Flat([n \in 1..Len(asts) |-> PreOrder(asts[n].root)])

RECURSIVE SampleChars(_)
SampleChars(nodes) ==
    IF nodes = <<>> THEN 0 ELSE Len(Head(nodes).sample) + SampleChars(Tail(nodes))

\* ceil(total sample characters / 4) + ceil(total node count / 10)
EstimateOf(asts) ==
    LET chars == SampleChars(NodesOf(asts))
        count == Len(NodesOf(asts))
    IN ((chars + 3) \div 4) + ((count + 9) \div 10)

\* C20: the estimate of a tree list is ceil(total sample characters / 4) +
\* ceil(total node count / 10), and the estimate of the list extended by one
\* more tree is never below the estimate of the list.
C20_EstimateIsMonotonic ==
    Estimated =>
        /\ call.out.list = EstimateOf(call.in.asts)
        /\ call.out.extended = EstimateOf(Append(call.in.asts, call.in.t))
        /\ call.out.extended >= call.out.list

\* C20 witness: a list of three trees whose estimate grows in both terms when a
\* fourth tree takes the node count past ten
C20_Witness ==
    /\ Estimated
    /\ Len(call.in.asts) = 3
    /\ Len(NodesOf(call.in.asts)) < 10
    /\ Len(NodesOf(Append(call.in.asts, call.in.t))) > 10
    /\ call.out.extended > call.out.list + 1

\* the estimate is unchanged by a tree that crosses neither rounding step
C20_WitnessEqual ==
    /\ Estimated
    /\ Len(call.in.asts) > 0
    /\ call.in.t.root = TreeLeaf
    /\ call.out.extended = call.out.list


Counted == pc = "returned" /\ call.fn = "topKTypes"

RECURSIVE SumOfCounts(_)
SumOfCounts(arr) == IF arr = <<>> THEN 0 ELSE Head(arr).count + SumOfCounts(Tail(arr))

TypesIn(root) == {PreOrder(root)[n].type : n \in 1..Len(PreOrder(root))}

\* k, given or defaulted, is at least the number of distinct node types
CoversEveryType ==
    (IF call.in.k = <<>> THEN DefaultTopK ELSE call.in.k[1])
        >= Cardinality(TypesIn(call.in.root))

\* C21 (as claimed): with counts, no stop set and k at least the number of
\* distinct node types, the returned counts sum to the number of nodes.
C21_CountsSumToNodeCount ==
    (Counted /\ call.in.opts.withCounts /\ call.in.opts.stopTypes = {} /\ CoversEveryType)
        => SumOfCounts(call.out) = Len(PreOrder(call.in.root))

\* C21 (amended): as claimed when the normalize option, if given, maps no node
\* type of the tree to the empty string; a node whose normalized type is empty
\* is not counted.
C21_CountsSumToNodeCountUnlessErased ==
    (Counted /\ call.in.opts.withCounts /\ call.in.opts.stopTypes = {} /\ CoversEveryType)
        => LET erased == SelectSeq(PreOrder(call.in.root),
                            LAMBDA n : normalizeType(call.in.opts.normalize, n.type) = "")
           IN SumOfCounts(call.out) = Len(PreOrder(call.in.root)) - Len(erased)

\* C21 witness: four nodes of three types, one type occurring twice, k = 3
C21_Witness ==
    /\ Counted
    /\ call.in.root = TreeTwo
    /\ call.in.k = <<3>>
    /\ call.in.opts = [stopTypes |-> {}, normalize |-> "none", withCounts |-> TRUE]
    /\ Len(call.out) = 3
    /\ call.out[1] = [type |-> "function_declaration", count |-> 2]
    /\ SumOfCounts(call.out) = 4


Started(r) == pc[r] # "idle"

\* what run r would be after the nodes and inputs of its own history alone
RECURSIVE AloneAfter(_)
AloneAfter(events) ==
    IF Len(events) = 1
    THEN [pc |-> "load_filtered", state |-> initialState(events[1].choice)]
    ELSE LET last == events[Len(events)]
         IN nodeStep(last.node, AloneAfter(SubSeq(events, 1, Len(events) - 1)).state,
                     last.choice)

\* C22: two runs interleaved at every node never share exploration state: each
\* has a trace object of its own, and the state of each run, its trace
\* included, is at every moment what its own nodes and inputs alone make it.
C22_RunsShareNoState ==
    /\ \A r \in RunIds :
          Started(r) => /\ StateOfRun(r) = AloneAfter(log[r]).state
                        /\ pc[r] = AloneAfter(log[r]).pc
    /\ \A r1, r2 \in RunIds :
          (Started(r1) /\ Started(r2) /\ r1 # r2)
              => state.runs[r1]._trace # state.runs[r2]._trace

\* C22 witness: both runs are under way, one after a loop-back and one in its
\* first iteration, with different requests and different traces
C22_Witness ==
    /\ pc[1] \in {"get_details", "prune_ast"} /\ pc[2] \in {"prune_ast", "answer_from_code"}
    /\ StateOfRun(1)._loopCount = 1 /\ StateOfRun(2)._loopCount = 0
    /\ StateOfRun(1).wantFiles # StateOfRun(2).wantFiles
    /\ StateOfRun(1)._trace.filesParsed # StateOfRun(2)._trace.filesParsed
    /\ StateOfRun(2)._trace.filesParsed # <<>>


IndexLoaded == call.fn = "loadFilteredAst"

\* C23: a load of the index file during a rebuild observes the complete
\* previous index, the complete new index or an absent file, never a partly
\* written one.
C23_LoadSeesAWholeIndexOrNone ==
    IndexLoaded =>
        \/ call.out.kind = "ENOENT"
        \/ /\ call.out.kind = "index"
           /\ call.out.index \in {call.in.previous, call.in.next}


\* the run is about to enter fetch_detail after a loop-back
EntersFetchAgain == pc = "get_details" /\ LastNode = "decide_files_again"

\* the files parsed in iteration i (counted from 0), none for an entry not written
ParsedIn(i) ==
    IF i < Len(state._trace.filesParsed) THEN Elems(state._trace.filesParsed[i + 1]) ELSE {}

\* C24: on every loop-back the request that enters fetch_detail is disjoint from
\* the files parsed in the earlier iterations, so no file is parsed in two
\* different iterations; and a request that the filtering leaves empty clears
\* the follow-up hints and is followed by no further loop-back.
C24_NoFileParsedInTwoIterations ==
    /\ EntersFetchAgain => Elems(state.wantFiles) \cap parsedAllOf(state) = {}
    /\ \A i, j \in 0..Len(state._trace.filesParsed) :
          i < j => ParsedIn(i) \cap ParsedIn(j) = {}
    /\ (EntersFetchAgain /\ state.wantFiles = <<>>) => state.followups.items = <<>>
    /\ pc = "decide_files_again" => state.wantFiles # <<>>


\* iterations of the run so far: 1 + the loop-backs
IterationsRun == 1 + Count("decide_files_again")

\* C25: at the end of a run of n iterations the trace lists filesRequested and
\* filesParsed have n entries each, one per iteration (the last parsed entry
\* being the files of the trees fetched last), and trace.iterations equals the
\* number of loop-backs, _loopCount.
C25_OneTraceEntryPerIteration ==
    pc = "END" =>
        /\ Len(state._trace.filesRequested) = IterationsRun
        /\ Len(state._trace.filesParsed) = IterationsRun
        /\ state._trace.filesParsed[IterationsRun] = filePaths(state.detailedAsts)
        /\ state._trace.iterations = state._loopCount
        /\ state._loopCount = IterationsRun - 1


\* kept and dropped files of a prune trace entry partition its planned files
PartitionsPlanned(entry) ==
    /\ Elems(entry.keptFiles) \cap Elems(entry.droppedFiles) = {}
    /\ Elems(entry.keptFiles) \cup Elems(entry.droppedFiles) = Elems(entry.plannedFiles)

\* C26: the prune trace of a run that has not failed has one entry per
\* iteration, that is one per execution of the prune stage, and in each entry keptFiles and droppedFiles are
\* disjoint and together equal plannedFiles.
C26_OnePruneEntryPerIteration ==
    /\ pc # "failed" => Len(state._trace.prune) = Count("prune_ast")
    /\ \A n \in 1..Len(state._trace.prune) : PartitionsPlanned(state._trace.prune[n])


MatchCap(hints) ==
    IF hints.maxNodes = <<>> THEN DefaultMaxNodes
    ELSE IF hints.maxNodes[1] < 0 THEN 0 ELSE hints.maxNodes[1]

\* C28: a predicate slice is flat: every matched node sits under the synthetic
\* root without its original descendants, so the slice has at most
\* 1 + maxNodes nodes in total.
C28_PredicateSliceIsFlat ==
    SlicedByHints =>
        /\ \A n \in 1..Len(call.out.root.children) :
              call.out.root.children[n].children = <<>>
        /\ Len(PreOrder(call.out.root)) <= 1 + MatchCap(call.in.hints)


\* a slice rule in the format the prune prompt offers, naming node types only
TypesOnly(rule) ==
    /\ rule.by # <<>>
    /\ rule.by[1].types # <<>>
    /\ rule.by[1].symbols = <<>>
    /\ rule.by[1].hintTypes = <<>>
    /\ rule.paths = <<>>

\* C29: a slice rule {file, by: {types: [T]}} with no symbols and no paths is
\* honoured by type: when the tree of the file has a node of type T the file is
\* kept as a slice whose synthetic root's children are the nodes of type T, up
\* to maxNodes, and the file is dropped only when no node has type T.
C29_TypesRuleHonoured ==
    (Applied /\ call.plan.mode # "DROP_ALL" /\ NoCapConfigured) =>
        \A i \in 1..Len(state.detailedAsts) :
            LET ast == state.detailedAsts[i]
            IN \A rule \in SliceRuleFor(call.plan, ast.filePath) :
                  TypesOnly(rule) =>
                      LET typed == SelectSeq(PreOrder(ast.root),
                                             LAMBDA node : node.type \in Elems(rule.by[1].types))
                          cap   == MatchCap(rule.by[1])
                      IN IF typed = <<>> THEN ~InPruned(ast.filePath)
                         ELSE \E j \in 1..Len(state.prunedAsts) :
                                 /\ state.prunedAsts[j].filePath = ast.filePath
                                 /\ state.prunedAsts[j].root.type = "root"
                                 /\ state.prunedAsts[j].root.children
                                      = SubSeq(typed, 1, Min(cap, Len(typed)))


Indexed == pc = "returned" /\ call.fn = "buildFilteredAstAt"

\* the files of the project as the directories below the root and a file name
ProjectTree ==
    { [dirs |-> <<>>, name |-> FileTs],
      [dirs |-> <<>>, name |-> FileMd],
      [dirs |-> <<DirOut>>, name |-> FileJs],
      [dirs |-> <<DirD>>, name |-> FileC],
      [dirs |-> <<DirD, DirOut>>, name |-> FileX] }

RelativePath(f) == Join(Append(f.dirs, f.name), <<"/">>)

\* the files the index is to hold: supported extension, parses, and no
\* excluded directory name on the path below the root
ToBeIndexed(failing) ==
    { RelativePath(f) :
        f \in { g \in ProjectTree :
                  /\ ToLower(ExtName(g.name)) \in exts
                  /\ RelativePath(g) \notin failing
                  /\ \A n \in 1..Len(g.dirs) : g.dirs[n] \notin excludes } }

\* C30: buildFilteredAst(projectRoot) indexes a file if and only if its
\* extension is supported, it parses without error and no directory on its
\* path below projectRoot has an excluded name, whatever the directories above
\* projectRoot are called; the files list is sorted and names no file twice.
C30_IndexedIffSupportedParsedNotExcluded ==
    Indexed =>
        /\ Elems(call.out.files) = ToBeIndexed(call.in.failing)
        /\ \A i, j \in 1..Len(call.out.files) :
              i < j => /\ LocaleLeq(call.out.files[i], call.out.files[j])
                       /\ call.out.files[i] # call.out.files[j]

====
